---- MODULE Spec2Model ----
(***************************************************************************)
(* Sublogue: injection of plot metadata into SRT subtitle files.           *)
(* Model of server/core/subtitle_processor.py.                             *)
(*                                                                         *)
(* Text is a sequence of atoms.  An atom is a string that stands for one   *)
(* piece of the real text: a whitespace character ("SP", "NL"), a piece of *)
(* the sentinel ("{", "SUB", "LOGUE", ":", "}"), a literal the code emits  *)
(* ("Generated", "IMDb:", "<b>", ...) or a word of a given width ("w4" is  *)
(* a word of 4 characters, "w4." the same word ending a sentence).         *)
(* Adjacent non-whitespace atoms form one whitespace-delimited token.      *)
(***************************************************************************)
EXTENDS Integers, Sequences, FiniteSets, TLC

\* ------------------------------------------------------------------------
\* Generic sequence helpers
\* ------------------------------------------------------------------------
Max2(a, b) == IF a >= b THEN a ELSE b

Min2(a, b) == IF a <= b THEN a ELSE b

Last(s) == s[Len(s)]

RECURSIVE Flatten(_)
Flatten(ss) == IF ss = <<>> THEN <<>> ELSE Head(ss) \o Flatten(Tail(ss))

RECURSIVE JoinWith(_, _)
\* sep.join(parts)
JoinWith(sep, parts) ==
    IF parts = <<>> THEN <<>>
    ELSE IF Len(parts) = 1 THEN parts[1]
    ELSE parts[1] \o sep \o JoinWith(sep, Tail(parts))

RECURSIVE SumSeq(_)
SumSeq(ns) == IF ns = <<>> THEN 0 ELSE Head(ns) + SumSeq(Tail(ns))

\* ------------------------------------------------------------------------
\* Atoms
\* ------------------------------------------------------------------------
IsWs(a) == a \in {"SP", "NL"}

\* Number of characters an atom stands for.
CharLen(a) ==
    CASE a \in {"w4", "Plot:"} -> 4
      [] a = "w4." -> 5
      [] a = "w30" -> 30
      [] a = "w30." -> 31
      [] a = "w50." -> 51
      [] a = "w120" -> 120
      [] a \in {"SUB", "<b>", "<i>", "..."} -> 3
      [] a \in {"LOGUE"} -> 5
      [] a \in {"</b>", "</i>"} -> 4
      [] OTHER -> 1

\* The atom ends with one of . ! ?
EndsSentence(a) == a \in {"w4.", "w30.", "w50."}

\* str.lower() on one atom
LowerAtom(a) ==
    CASE a = "Generated" -> "generated"
      [] a = "Sublogue" -> "sublogue"
      [] a = "IMDb:" -> "imdb:"
      [] OTHER -> a

Lower(t) == [i \in 1..Len(t) |-> LowerAtom(t[i])]

TextLen(t) == SumSeq([i \in 1..Len(t) |-> CharLen(t[i])])

\* needle in hay (substring test on atom boundaries)
Contains(hay, needle) ==
    \E i \in 1..(Len(hay) - Len(needle) + 1) :
        SubSeq(hay, i, i + Len(needle) - 1) = needle

RECURSIVE LStrip(_)
LStrip(t) == IF t # <<>> /\ IsWs(Head(t)) THEN LStrip(Tail(t)) ELSE t

RECURSIVE RStrip(_)
RStrip(t) ==
    IF t # <<>> /\ IsWs(Last(t)) THEN RStrip(SubSeq(t, 1, Len(t) - 1)) ELSE t

\* str.strip()
Strip(t) == RStrip(LStrip(t))

RECURSIVE SplitAcc(_, _, _)
SplitAcc(t, cur, acc) ==
    IF t = <<>> THEN (IF cur = <<>> THEN acc ELSE Append(acc, cur))
    ELSE IF IsWs(Head(t))
         THEN SplitAcc(Tail(t), <<>>, IF cur = <<>> THEN acc ELSE Append(acc, cur))
         ELSE SplitAcc(Tail(t), Append(cur, Head(t)), acc)

\* str.split(): the whitespace-delimited tokens
Split(t) == SplitAcc(t, <<>>, <<>>)

RECURSIVE SplitLinesAcc(_, _, _)
SplitLinesAcc(t, cur, acc) ==
    IF t = <<>> THEN (IF cur = <<>> THEN acc ELSE Append(acc, cur))
    ELSE IF Head(t) = "NL"
         THEN SplitLinesAcc(Tail(t), <<>>, Append(acc, cur))
         ELSE SplitLinesAcc(Tail(t), Append(cur, Head(t)), acc)

\* str.splitlines(): no trailing empty line for a final newline
SplitLines(t) == SplitLinesAcc(t, <<>>, <<>>)

JoinSp(parts) == JoinWith(<<"SP">>, parts)

JoinNl(parts) == JoinWith(<<"NL">>, parts)

\* ------------------------------------------------------------------------
\* Sentinel
\* ------------------------------------------------------------------------
SUBLOGUE_SENTINEL == <<"{", "SUB", "LOGUE", "}">>

\* First index >= i holding "}", or 0
RECURSIVE FindClose(_, _)
FindClose(t, i) ==
    IF i > Len(t) THEN 0 ELSE IF t[i] = "}" THEN i ELSE FindClose(t, i + 1)

\* Length of the match of \{SUBLOGUE(?::[^}]*)?\} starting at i, or 0
TokenMatchLen(t, i) ==
    IF i + 3 <= Len(t) /\ t[i] = "{" /\ t[i + 1] = "SUB" /\ t[i + 2] = "LOGUE"
    THEN IF t[i + 3] = "}" THEN 4
         ELSE IF t[i + 3] = ":" /\ FindClose(t, i + 4) > 0
              THEN FindClose(t, i + 4) - i + 1
              ELSE 0
    ELSE 0

\* SUBLOGUE_TOKEN_PATTERN.search(text)
SUBLOGUE_TOKEN_PATTERN_search(t) == \E i \in 1..Len(t) : TokenMatchLen(t, i) > 0

RECURSIVE TokenSubFrom(_, _)
TokenSubFrom(t, i) ==
    IF i > Len(t) THEN <<>>
    ELSE IF TokenMatchLen(t, i) > 0 THEN TokenSubFrom(t, i + TokenMatchLen(t, i))
    ELSE <<t[i]>> \o TokenSubFrom(t, i + 1)

\* SUBLOGUE_TOKEN_PATTERN.sub("", text): one left-to-right pass over the
\* non-overlapping matches
SUBLOGUE_TOKEN_PATTERN_sub(t) == TokenSubFrom(t, 1)

\* ------------------------------------------------------------------------
\* Reading time
\* ------------------------------------------------------------------------
READING_WPM == 160

MIN_MS == 1200

MAX_MS == 6000

count_words(t) == Len(Split(SUBLOGUE_TOKEN_PATTERN_sub(t)))

\* a reading time with no upper clamp
calculate_reading_duration_ms_NoMax(t) ==
    Max2((count_words(t) * 60000) \div READING_WPM, MIN_MS)

\* words / (wpm / 60) seconds, clamped, in ms: 60000 * w / 160 = 375 * w
calculate_reading_duration_ms(t) ==
    Max2(Min2((count_words(t) * 60000) \div READING_WPM, MAX_MS), MIN_MS)

\* ------------------------------------------------------------------------
\* Sanitization
\* ------------------------------------------------------------------------
RECURSIVE CollapseNewlines(_, _)
\* re.sub(r'\n{3,}', '\n\n', text); run is the number of newlines just emitted
CollapseNewlines(t, run) ==
    IF t = <<>> THEN <<>>
    ELSE IF Head(t) = "NL"
         THEN IF run >= 2 THEN CollapseNewlines(Tail(t), run)
              ELSE <<"NL">> \o CollapseNewlines(Tail(t), run + 1)
         ELSE <<Head(t)>> \o CollapseNewlines(Tail(t), 0)

sanitize_subtitle_text(t) ==
    Strip(CollapseNewlines(SUBLOGUE_TOKEN_PATTERN_sub(t), 0))

SubtitleBlock(i, s, e, t) ==
    [index |-> i, start_time |-> s, end_time |-> e, text |-> t]

RECURSIVE sanitize_all_blocks(_)
sanitize_all_blocks(blocks) ==
    IF blocks = <<>> THEN <<>>
    ELSE LET b == Head(blocks)
             clean_text == sanitize_subtitle_text(b.text)
         IN (IF clean_text # <<>>
             THEN <<SubtitleBlock(b.index, b.start_time, b.end_time, clean_text)>>
             ELSE <<>>) \o sanitize_all_blocks(Tail(blocks))

\* ------------------------------------------------------------------------
\* SRT codec.  A file is a sequence of lines; a line is either a timecode
\* line "from --> to" (tc, with the fields of both timecodes as written) or a
\* line of text t (empty for a blank line).
\* ------------------------------------------------------------------------
Tc(h, m, s, ms) == [h |-> h, m |-> m, s |-> s, ms |-> ms]

TextLine(t) == [tc |-> FALSE, from |-> Tc(0, 0, 0, 0), to |-> Tc(0, 0, 0, 0), t |-> t]

TcLine(from, to) == [tc |-> TRUE, from |-> from, to |-> to, t |-> <<"TC">>]

BlankLine == TextLine(<<>>)

\* _TIMECODE_RE.search(line): each field of the pattern is \d{2} (\d{3} for
\* the milliseconds).  The search may start inside the hours of "from", but
\* "to" must follow the arrow directly, so its hours must be two digits.
TimecodeMatches(line) == line.tc /\ line.to.h < 100

\* group("start"): the last two digits of the hours of "from"
TimecodeStart(line) == Tc(line.from.h % 100, line.from.m, line.from.s, line.from.ms)

_timecode_to_ms(tc) == ((tc.h * 3600 + tc.m * 60 + tc.s) * 1000) + tc.ms

_ms_to_timecode(ms0) ==
    LET ms == Max2(ms0, 0)
        secs == ms \div 1000
    IN Tc(secs \div 3600, (secs % 3600) \div 60, (secs % 3600) % 60, ms % 1000)

MaxIndex == 12

\* str(n) for the indices the model writes
IndexText(n) == <<ToString(n)>>

\* line.strip().isdigit()
IsDigitLine(line) ==
    ~line.tc /\ \E n \in 0..MaxIndex : Strip(line.t) = IndexText(n)

IntOfLine(line) == CHOOSE n \in 0..MaxIndex : Strip(line.t) = IndexText(n)

\* not line.strip()
IsBlankLine(line) == ~line.tc /\ Strip(line.t) = <<>>

RECURSIVE TextEnd(_, _)
\* first j >= i where the text of a block stops
TextEnd(lines, j) ==
    IF j > Len(lines) \/ IsBlankLine(lines[j]) \/ TimecodeMatches(lines[j])
    THEN j ELSE TextEnd(lines, j + 1)

RECURSIVE ParseFrom(_, _, _)
ParseFrom(lines, i, blocks) ==
    IF i > Len(lines) THEN blocks
    ELSE IF IsBlankLine(lines[i]) \/ ~TimecodeMatches(lines[i])
    THEN ParseFrom(lines, i + 1, blocks)
    ELSE LET start == _timecode_to_ms(TimecodeStart(lines[i]))
             end == _timecode_to_ms(lines[i].to)
             index == IF i > 1 /\ IsDigitLine(lines[i - 1])
                      THEN IntOfLine(lines[i - 1]) ELSE 0
             j == TextEnd(lines, i + 1)
             text == Strip(JoinNl([k \in 1..(j - i - 1) |-> lines[i + k].t]))
         IN ParseFrom(lines, j,
                      IF text # <<>>
                      THEN Append(blocks, SubtitleBlock(index, start, end, text))
                      ELSE blocks)

parse_srt(lines) == ParseFrom(lines, 1, <<>>)

RECURSIVE RStripLines(_)
\* "\n".join(out).rstrip(): trailing blank lines go, and the trailing
\* whitespace of the last line
RStripLines(lines) ==
    IF lines = <<>> THEN <<>>
    ELSE IF IsBlankLine(Last(lines)) THEN RStripLines(SubSeq(lines, 1, Len(lines) - 1))
    ELSE IF Last(lines).tc THEN lines
    ELSE SubSeq(lines, 1, Len(lines) - 1) \o <<TextLine(RStrip(Last(lines).t))>>

RECURSIVE FormatOut(_)
FormatOut(subs) ==
    IF subs = <<>> THEN <<>>
    ELSE LET b == Head(subs)
             body == SplitLines(b.text)
         IN <<TextLine(IndexText(b.index)),
              TcLine(_ms_to_timecode(b.start_time), _ms_to_timecode(b.end_time))>>
            \o [k \in 1..Len(body) |-> TextLine(body[k])]
            \o <<BlankLine>>
            \o FormatOut(Tail(subs))

format_srt(subs) == RStripLines(FormatOut(subs))

\* ------------------------------------------------------------------------
\* Detection of generated blocks
\* ------------------------------------------------------------------------
IsGeneratedBlock(block) ==
    LET text_lower == Lower(block.text)
    IN \/ Contains(block.text, SUBLOGUE_SENTINEL)
       \/ SUBLOGUE_TOKEN_PATTERN_search(block.text)
       \/ Contains(text_lower, <<"generated", "SP", "by", "SP", "sublogue">>)
       \/ (block.start_time = 0 /\ block.end_time = 0)
       \/ \E i \in 1..Len(text_lower) : text_lower[i] \in {"imdb:", "STAR", "CLOCK"}

strip_existing_plot_blocks(blocks) == SelectSeq(blocks, LAMBDA b : ~IsGeneratedBlock(b))

\* ------------------------------------------------------------------------
\* TV display helpers
\* ------------------------------------------------------------------------
TV_LINE_WIDTH == 55

TV_MAX_LINES == 2

RECURSIVE ChunksAcc(_, _, _)
\* textwrap's chunks: maximal runs of whitespace and of non-whitespace
ChunksAcc(t, cur, acc) ==
    IF t = <<>> THEN (IF cur = <<>> THEN acc ELSE Append(acc, cur))
    ELSE IF cur = <<>> \/ IsWs(Head(t)) = IsWs(cur[1])
         THEN ChunksAcc(Tail(t), Append(cur, Head(t)), acc)
         ELSE ChunksAcc(Tail(t), <<Head(t)>>, Append(acc, cur))

IsWsChunk(c) == c # <<>> /\ IsWs(c[1])

\* textwrap replaces every whitespace character by a space
Spaces(c) == IF IsWsChunk(c) THEN [i \in 1..Len(c) |-> "SP"] ELSE c

RECURSIVE TakeFit(_, _, _)
\* number of leading chunks that fit on a line of the given width
TakeFit(chunks, k, len) ==
    IF k < Len(chunks) /\ len + TextLen(chunks[k + 1]) <= TV_LINE_WIDTH
    THEN TakeFit(chunks, k + 1, len + TextLen(chunks[k + 1]))
    ELSE k

RECURSIVE WrapChunks(_, _)
\* textwrap.TextWrapper._wrap_chunks with width = TV_LINE_WIDTH.  A word wider
\* than the line is kept whole on a line of its own (textwrap breaks it into
\* pieces of the line width; no plot drawn below holds such a word where the
\* wrapped text is used).
WrapChunks(chunks, lines) ==
    IF chunks = <<>> THEN lines
    ELSE LET Emit(cs, k, kept) ==
                 WrapChunks(SubSeq(cs, k + 1, Len(cs)),
                            IF kept = <<>> THEN lines
                            ELSE Append(lines,
                                        Flatten([i \in 1..Len(kept) |-> Spaces(kept[i])])))
             Keep(cs, k, taken) ==
                 Emit(cs, k, IF taken # <<>> /\ IsWsChunk(Last(taken))
                             THEN SubSeq(taken, 1, Len(taken) - 1) ELSE taken)
             Take(cs, k0) ==
                 LET k == IF k0 = 0 /\ cs # <<>> THEN 1 ELSE k0
                 IN Keep(cs, k, SubSeq(cs, 1, k))
             Line(cs) == Take(cs, TakeFit(cs, 0, 0))
         IN Line(IF IsWsChunk(chunks[1]) /\ lines # <<>> THEN Tail(chunks) ELSE chunks)

textwrap_wrap(t) == WrapChunks(ChunksAcc(t, <<>>, <<>>), <<>>)

wrap_for_tv(t) ==
    LET Clamp(lines) ==
            IF Len(lines) > TV_MAX_LINES
            THEN JoinNl(SubSeq(lines, 1, TV_MAX_LINES - 1)
                        \o <<RStrip(lines[TV_MAX_LINES]) \o <<"...">>>>)
            ELSE JoinNl(lines)
    IN Clamp(textwrap_wrap(t))

RECURSIVE SentencesAcc(_, _, _)
\* re.split(r'(?<=[.!?])\s+', text): cut at each run of whitespace that follows
\* a sentence end
SentencesAcc(chunks, cur, acc) ==
    IF chunks = <<>> THEN Append(acc, cur)
    ELSE IF IsWsChunk(chunks[1]) /\ cur # <<>> /\ EndsSentence(Last(cur))
         THEN SentencesAcc(Tail(chunks), <<>>, Append(acc, cur))
         ELSE SentencesAcc(Tail(chunks), cur \o chunks[1], acc)

SplitSentences(t) == SentencesAcc(ChunksAcc(t, <<>>, <<>>), <<>>, <<>>)

MaxCharsPerChunk == TV_LINE_WIDTH * TV_MAX_LINES

RECURSIVE SplitWords_DropsOverflow(_, _, _)
\* a word loop that starts afresh on overflow without saving the chunk so far
SplitWords_DropsOverflow(words, chunks, current) ==
    IF words = <<>> THEN <<chunks, current>>
    ELSE IF TextLen(IF current # <<>> THEN Strip(current \o <<"SP">> \o Head(words))
                    ELSE Head(words)) <= TV_LINE_WIDTH * TV_MAX_LINES
         THEN SplitWords_DropsOverflow(Tail(words), chunks,
                                       IF current # <<>>
                                       THEN Strip(current \o <<"SP">> \o Head(words))
                                       ELSE Head(words))
         ELSE SplitWords_DropsOverflow(Tail(words), chunks, Head(words))

RECURSIVE SplitWords(_, _, _)
\* the word loop of _split_plot_into_display_chunks: st = <<chunks, current>>
SplitWords(words, chunks, current) ==
    IF words = <<>> THEN <<chunks, current>>
    ELSE LET word == Head(words)
             test_word == IF current # <<>> THEN Strip(current \o <<"SP">> \o word) ELSE word
         IN IF TextLen(test_word) <= MaxCharsPerChunk
            THEN SplitWords(Tail(words), chunks, test_word)
            ELSE SplitWords(Tail(words),
                            IF current # <<>> THEN Append(chunks, current) ELSE chunks,
                            word)

RECURSIVE SplitLoop(_, _, _)
SplitLoop(sentences, chunks, current) ==
    IF sentences = <<>>
    THEN (IF current # <<>> THEN Append(chunks, current) ELSE chunks)
    ELSE LET sentence == Strip(Head(sentences))
             test_chunk == IF current # <<>>
                           THEN Strip(current \o <<"SP">> \o sentence) ELSE sentence
         IN IF sentence = <<>> THEN SplitLoop(Tail(sentences), chunks, current)
            ELSE IF TextLen(test_chunk) <= MaxCharsPerChunk
            THEN SplitLoop(Tail(sentences), chunks, test_chunk)
            ELSE LET saved == IF current # <<>> THEN Append(chunks, current) ELSE chunks
                 IN IF TextLen(sentence) <= MaxCharsPerChunk
                    THEN SplitLoop(Tail(sentences), saved, sentence)
                    ELSE LET st == SplitWords(Split(sentence), saved, <<>>)
                         IN SplitLoop(Tail(sentences), st[1], st[2])

_split_plot_into_display_chunks(plot) ==
    IF Strip(plot) = <<>> THEN <<>>
    ELSE SplitLoop(SplitSentences(Strip(plot)), <<>>, <<>>)

MIN_WORDS_FOR_SEPARATE_BLOCK == 6

RECURSIVE MergeFrom(_, _)
\* the backwards loop of _merge_small_trailing_chunks, i counted from 1
MergeFrom(result, i) ==
    IF i <= 1 THEN result
    ELSE LET merged == result[i - 1] \o <<"SP">> \o result[i]
         IN IF count_words(result[i]) < MIN_WORDS_FOR_SEPARATE_BLOCK
               /\ TextLen(merged) <= MaxCharsPerChunk
            THEN MergeFrom(SubSeq(result, 1, i - 2) \o <<merged>>
                              \o SubSeq(result, i + 1, Len(result)), i - 1)
            ELSE MergeFrom(result, i - 1)

_merge_small_trailing_chunks(chunks) ==
    IF Len(chunks) <= 1 THEN chunks ELSE MergeFrom(chunks, Len(chunks))

\* ------------------------------------------------------------------------
\* Intro block builder
\* ------------------------------------------------------------------------
NA == <<"N/A">>

\* movie.get(k) or "N/A": an empty text stands for a missing or empty field
OrNA(v) == IF v = <<>> THEN NA ELSE v

IsNumberAtom(a) == a \in {"120"}

\* re.search(r'(\d+)', runtime_raw): "<digits> min", else the raw value
RuntimeDisplay(runtime_raw) ==
    IF runtime_raw # <<>> /\ runtime_raw # NA
    THEN IF \E i \in 1..Len(runtime_raw) : IsNumberAtom(runtime_raw[i])
         THEN <<(CHOOSE a \in {runtime_raw[i] : i \in 1..Len(runtime_raw)} : IsNumberAtom(a)),
                "SP", "min">>
         ELSE runtime_raw
    ELSE NA

\* actors is the list of names of "A, B, C"; more than three are cut
ActorsDisplay(actors) ==
    IF Len(actors) > 3
    THEN JoinWith(<<",", "SP">>, SubSeq(actors, 1, 3)) \o <<"...">>
    ELSE JoinWith(<<",", "SP">>, actors)

\* a header whose bold tags stand apart from the title, as words of their own
HeaderText_BoldSpaced(movie, fo) ==
    LET title_display == IF fo.title_bold
                         THEN <<"<b>", "SP">> \o movie.title \o <<"SP", "</b>">>
                         ELSE movie.title
        title_line == title_display \o <<"SP", "(">> \o movie.year \o <<")">>
        info_line == <<"STAR", "SP", "IMDb:", "SP">> \o OrNA(movie.imdb_rating)
                     \o <<"SP", "SP", "SP", "TOMATO", "SP", "RT:", "SP">>
                     \o OrNA(movie.rotten_tomatoes)
                     \o <<"SP", "SP", "SP", "CLOCK", "SP">> \o RuntimeDisplay(movie.runtime)
        extra_lines ==
            (IF fo.show_director /\ OrNA(movie.director) # NA
             THEN <<(<<"FILM", "SP", "Director:", "SP">> \o movie.director)>> ELSE <<>>)
            \o (IF fo.show_actors /\ movie.actors # <<>>
                THEN <<(<<"MASK", "SP", "Cast:", "SP">> \o ActorsDisplay(movie.actors))>>
                ELSE <<>>)
            \o (IF fo.show_released /\ OrNA(movie.released) # NA
                THEN <<(<<"CAL", "SP", "Released:", "SP">> \o movie.released)>> ELSE <<>>)
            \o (IF fo.show_genre /\ OrNA(movie.genre) # NA
                THEN <<(<<"REEL", "SP", "Genre:", "SP">> \o movie.genre)>> ELSE <<>>)
    IN JoinNl(<<SUBLOGUE_SENTINEL, title_line, info_line>> \o extra_lines
              \o <<(<<>>), <<"DASH", "SP", "Generated", "SP", "by", "SP", "Sublogue">>>>)

HeaderText(movie, fo) ==
    LET title_display == IF fo.title_bold THEN <<"<b>">> \o movie.title \o <<"</b>">>
                         ELSE movie.title
        title_line == title_display \o <<"SP", "(">> \o movie.year \o <<")">>
        info_line == <<"STAR", "SP", "IMDb:", "SP">> \o OrNA(movie.imdb_rating)
                     \o <<"SP", "SP", "SP", "TOMATO", "SP", "RT:", "SP">>
                     \o OrNA(movie.rotten_tomatoes)
                     \o <<"SP", "SP", "SP", "CLOCK", "SP">> \o RuntimeDisplay(movie.runtime)
        extra_lines ==
            (IF fo.show_director /\ OrNA(movie.director) # NA
             THEN <<(<<"FILM", "SP", "Director:", "SP">> \o movie.director)>> ELSE <<>>)
            \o (IF fo.show_actors /\ movie.actors # <<>>
                THEN <<(<<"MASK", "SP", "Cast:", "SP">> \o ActorsDisplay(movie.actors))>>
                ELSE <<>>)
            \o (IF fo.show_released /\ OrNA(movie.released) # NA
                THEN <<(<<"CAL", "SP", "Released:", "SP">> \o movie.released)>> ELSE <<>>)
            \o (IF fo.show_genre /\ OrNA(movie.genre) # NA
                THEN <<(<<"REEL", "SP", "Genre:", "SP">> \o movie.genre)>> ELSE <<>>)
    IN JoinNl(<<SUBLOGUE_SENTINEL, title_line, info_line>> \o extra_lines
              \o <<(<<>>), <<"DASH", "SP", "Generated", "SP", "by", "SP", "Sublogue">>>>)

format_plot_chunk(chunk_text, is_first_chunk, fo) ==
    LET Prefixed(styled) ==
            IF is_first_chunk
            THEN SUBLOGUE_SENTINEL \o <<"NL", "Plot:", "SP">> \o styled
            ELSE SUBLOGUE_SENTINEL \o <<"NL">> \o styled
        Styled(wrapped) ==
            Prefixed(IF fo.plot_italic THEN <<"<i>">> \o wrapped \o <<"</i>">> ELSE wrapped)
    IN Styled(wrap_for_tv(chunk_text))

\* min(proposed_end, first_subtitle_start_ms - 1)
safe_end_time(proposed_end, first_subtitle_start_ms) ==
    Min2(proposed_end, first_subtitle_start_ms - 1)

RECURSIVE FullFit(_, _, _, _, _)
\* Case 1: every chunk at its reading duration
FullFit(merged, i, blocks, first, fo) ==
    IF i > Len(merged) THEN blocks
    ELSE LET chunk_start == Last(blocks).end_time
             chunk_end == safe_end_time(
                 chunk_start + calculate_reading_duration_ms(merged[i]), first)
         IN FullFit(merged, i + 1,
                    Append(blocks, SubtitleBlock(Len(blocks) + 1, chunk_start, chunk_end,
                                                 format_plot_chunk(merged[i], i = 1, fo))),
                    first, fo)

RECURSIVE CompressedFit_NaturalDurations(_, _, _, _, _, _)
\* a case 2 that gives every chunk its reading duration instead of its share
CompressedFit_NaturalDurations(merged, i, blocks, plot_available_ms, first, fo) ==
    IF i > Len(merged) THEN blocks
    ELSE CompressedFit_NaturalDurations(
             merged, i + 1,
             Append(blocks,
                    SubtitleBlock(Len(blocks) + 1, Last(blocks).end_time,
                                  safe_end_time(Last(blocks).end_time
                                                + calculate_reading_duration_ms(merged[i]),
                                                first),
                                  format_plot_chunk(merged[i], i = 1, fo))),
             plot_available_ms, first, fo)

RECURSIVE CompressedFit(_, _, _, _, _, _)
\* Case 2: the time left after the header is shared by word count.  The code
\* computes int(plot_available_ms * (chunk_words / total_words)) in floating
\* point; the model takes the exact quotient.
CompressedFit(merged, i, blocks, plot_available_ms, first, fo) ==
    IF i > Len(merged) THEN blocks
    ELSE LET chunk_start == Last(blocks).end_time
             total_words == SumSeq([k \in 1..Len(merged) |-> count_words(merged[k])])
             chunk_duration ==
                 IF total_words > 0
                 THEN Max2((plot_available_ms * count_words(merged[i])) \div total_words,
                           MIN_MS)
                 ELSE plot_available_ms \div Len(merged)
             chunk_end == safe_end_time(chunk_start + chunk_duration, first)
         IN CompressedFit(merged, i + 1,
                          Append(blocks, SubtitleBlock(Len(blocks) + 1, chunk_start, chunk_end,
                                                       format_plot_chunk(merged[i], i = 1, fo))),
                          plot_available_ms, first, fo)

RECURSIVE PartialFit(_, _, _, _, _, _)
\* Case 3: as many chunks as fit; the rest is joined into the last one shown
PartialFit(merged, i, blocks, first, gap, fo) ==
    IF i > Len(merged) THEN blocks
    ELSE LET current_ms == Last(blocks).end_time
             remaining_ms == (first - gap) - current_ms
             Continue(is_last_fitting, added) ==
                 IF is_last_fitting THEN added
                 ELSE PartialFit(merged, i + 1, added, first, gap, fo)
             Add(chunk_duration, is_last_fitting) ==
                 LET chunk_end == safe_end_time(current_ms + chunk_duration, first)
                     chunk == IF is_last_fitting /\ i < Len(merged)
                              THEN JoinSp(SubSeq(merged, i, Len(merged))) ELSE merged[i]
                 IN Continue(is_last_fitting,
                             Append(blocks,
                                    SubtitleBlock(Len(blocks) + 1, current_ms, chunk_end,
                                                  format_plot_chunk(chunk, Len(blocks) = 1, fo))))
             Fit(chunk_duration) ==
                 Add(chunk_duration,
                     (i = Len(merged)) \/ (remaining_ms - chunk_duration < MIN_MS))
         IN IF remaining_ms < MIN_MS THEN blocks
            ELSE Fit(Max2(Min2(calculate_reading_duration_ms(merged[i]), remaining_ms),
                          MIN_MS))

\* The blocks build_intro_blocks has built when it reaches its final assertion
IntroBlocks(movie, plot, first_subtitle_start_ms, min_safe_gap_ms, fo) ==
    LET available_time_ms == first_subtitle_start_ms - min_safe_gap_ms
        min_required_ms == MIN_MS + min_safe_gap_ms
        Cases(header_text, header_duration_ms, plot_chunks, total_plot_duration_ms,
              merged_chunks) ==
            LET total_needed_ms == header_duration_ms + total_plot_duration_ms
                header_end_ms ==
                    Min2(header_duration_ms,
                         Max2(MIN_MS, available_time_ms \div (Len(merged_chunks) + 1)))
            IN IF first_subtitle_start_ms < min_required_ms THEN <<>>
               ELSE IF available_time_ms >= total_needed_ms
               THEN FullFit(merged_chunks, 1,
                            <<SubtitleBlock(1, 0, header_duration_ms, header_text)>>,
                            first_subtitle_start_ms, fo)
               ELSE IF available_time_ms >= header_duration_ms + MIN_MS * Len(plot_chunks)
               THEN CompressedFit(merged_chunks, 1,
                                  <<SubtitleBlock(1, 0, header_end_ms, header_text)>>,
                                  available_time_ms - header_end_ms,
                                  first_subtitle_start_ms, fo)
               ELSE IF available_time_ms >= header_duration_ms + MIN_MS
               THEN PartialFit(merged_chunks, 1,
                               <<SubtitleBlock(1, 0,
                                               Min2(header_duration_ms,
                                                    available_time_ms \div 2),
                                               header_text)>>,
                               first_subtitle_start_ms, min_safe_gap_ms, fo)
               ELSE IF available_time_ms >= MIN_MS
               THEN <<SubtitleBlock(1, 0,
                                    safe_end_time(first_subtitle_start_ms - min_safe_gap_ms,
                                                  first_subtitle_start_ms),
                                    SUBLOGUE_SENTINEL \o <<"NL">> \o movie.title
                                        \o <<"SP", "(">> \o movie.year \o <<")", "NL">>
                                        \o <<"DASH", "SP", "Generated", "SP", "by", "SP",
                                              "Sublogue">>)>>
               ELSE <<>>
        Timed(header_text, plot_chunks) ==
            Cases(header_text, calculate_reading_duration_ms(header_text), plot_chunks,
                  SumSeq([k \in 1..Len(plot_chunks) |->
                              calculate_reading_duration_ms(plot_chunks[k])]),
                  _merge_small_trailing_chunks(plot_chunks))
    IN Timed(HeaderText(movie, fo), _split_plot_into_display_chunks(plot))

\* assert blocks[-1].end_time < first_subtitle_start_ms
IntroAssertionFails(blocks, first_subtitle_start_ms) ==
    blocks # <<>> /\ ~(Last(blocks).end_time < first_subtitle_start_ms)

\* The outcome of a call: the list returned, or AssertionError raised
build_intro_blocks(movie, plot, first_subtitle_start_ms, min_safe_gap_ms, fo) ==
    LET Outcome(blocks) ==
            [raised |-> IntroAssertionFails(blocks, first_subtitle_start_ms),
             blocks |-> blocks]
    IN Outcome(IntroBlocks(movie, plot, first_subtitle_start_ms, min_safe_gap_ms, fo))

\* ------------------------------------------------------------------------
\* Ad cleaning (core/keyword_stripper.py), on the atoms "YTS" (a watermark
\* that also opens a promotional line) and "--" (punctuation only)
\* ------------------------------------------------------------------------
IsWatermark(a) == a = "YTS"

IsPunctuation(a) == a \in {"--", "..."}

\* re.search(r'[a-zA-Z0-9]', atom)
HasAlnum(a) ==
    a \notin {"SP", "NL", "--", "...", "{", "}", ":", "(", ")", ",", "STAR", "TOMATO",
              "CLOCK", "DASH", "FILM", "MASK", "CAL", "REEL"}

\* subtitle_watermarks removed from one line
Markup == {"<b>", "</b>", "<i>", "</i>"}

\* the atom ends (starts) with a word character, so no \b follows (precedes) it
EndsWord(a) ==
    HasAlnum(a) /\ ~EndsSentence(a)
    /\ a \notin Markup \cup {"IMDb:", "RT:", "Plot:", "Director:", "Cast:", "Released:", "Genre:"}

StartsWord(a) == HasAlnum(a) /\ a \notin Markup

RECURSIVE RemoveWatermarksFrom(_, _)
\* the matches of \byts\b go
RemoveWatermarksFrom(line, i) ==
    IF i > Len(line) THEN <<>>
    ELSE (IF /\ IsWatermark(line[i])
             /\ (i = 1 \/ ~EndsWord(line[i - 1]))
             /\ (i = Len(line) \/ ~StartsWord(line[i + 1]))
          THEN <<>> ELSE <<line[i]>>) \o RemoveWatermarksFrom(line, i + 1)

RemoveWatermarks(line) == RemoveWatermarksFrom(line, 1)

IsAdLine(line) ==
    \/ (LStrip(SelectSeq(line, LAMBDA a : a # "--")) # <<>>
        /\ IsWatermark(Head(LStrip(SelectSeq(line, LAMBDA a : a # "--")))))
    \/ SelectSeq(RemoveWatermarks(line), LAMBDA a : ~IsWs(a) /\ ~IsPunctuation(a)) = <<>>

should_remove_subtitle_block(text) ==
    \A l \in {SplitLines(Strip(text))[i] : i \in 1..Len(SplitLines(Strip(text)))} :
        Strip(l) = <<>> \/ IsAdLine(Strip(l))

\* re.sub(r'\s+', ' ', line).strip()
CollapseSpaces(line) == JoinSp(Split(line))

clean_subtitle_text(text) ==
    LET lines == SplitLines(text)
        cleaned == [i \in 1..Len(lines) |-> CollapseSpaces(RemoveWatermarks(lines[i]))]
        kept == SelectSeq(cleaned, LAMBDA l : \E i \in 1..Len(l) : HasAlnum(l[i]))
    IN JoinNl(kept)

RECURSIVE clean_subtitle_blocks(_)
clean_subtitle_blocks(blocks) ==
    IF blocks = <<>> THEN <<>>
    ELSE LET b == Head(blocks)
             cleaned_text == clean_subtitle_text(b.text)
         IN (IF should_remove_subtitle_block(b.text) \/ Strip(cleaned_text) = <<>>
             THEN <<>>
             ELSE <<SubtitleBlock(b.index, b.start_time, b.end_time, cleaned_text)>>)
            \o clean_subtitle_blocks(Tail(blocks))

\* ------------------------------------------------------------------------
\* process_file: the steps between reading the file and writing it
\* ------------------------------------------------------------------------
PLOT_SCAN_LINES == 40

_has_plot_fast(lines) ==
    \E i \in 1..Min2(Len(lines), PLOT_SCAN_LINES) :
        \/ Contains(lines[i].t, SUBLOGUE_SENTINEL)
        \/ Contains(Lower(lines[i].t), <<"generated", "SP", "by", "SP", "sublogue">>)

\* a renumbering that also stretches every block by a millisecond
Renumber_Retimed(final) ==
    [i \in 1..Len(final) |->
        SubtitleBlock(i, final[i].start_time, final[i].end_time + 1, final[i].text)]

\* SubtitleBlock(i + 1, b.start_time, b.end_time, b.text) for i, b in enumerate(final)
Renumber(final) ==
    [i \in 1..Len(final) |->
        SubtitleBlock(i, final[i].start_time, final[i].end_time, final[i].text)]

Computed(kind, error, intro, clean_subs, out) ==
    [kind |-> kind, error |-> error, intro |-> intro, clean_subs |-> clean_subs, out |-> out]

\* Phases 1 to 6 of process_file on the content read: the text to write
\* ("ok"), a failure result ("fail") or an exception ("raise")
ProcessContent(lines, movie, plot, fo, clean_subtitle_content) ==
    LET Checked(clean_subs, built, renumbered) ==
            IF built.raised
            THEN Computed("raise", "AssertionError", <<>>, clean_subs, <<>>)
            ELSE IF renumbered[Len(built.blocks) + 1].start_time # clean_subs[1].start_time
            THEN Computed("fail", "Internal error: timing corruption detected",
                          built.blocks, clean_subs, <<>>)
            ELSE Computed("ok", "", built.blocks, clean_subs,
                          format_srt(sanitize_all_blocks(renumbered)))
        Built(clean_subs, built) ==
            Checked(clean_subs, built, Renumber(built.blocks \o clean_subs))
        Cleaned(clean_subs) ==
            IF clean_subs = <<>>
            THEN Computed("fail", "No dialogue subtitles found after ad removal",
                          <<>>, <<>>, <<>>)
            ELSE Built(clean_subs,
                       build_intro_blocks(movie, plot, clean_subs[1].start_time, 500, fo))
        Stripped(stripped) ==
            IF stripped = <<>>
            THEN Computed("fail", "No dialogue subtitles found after cleaning",
                          <<>>, <<>>, <<>>)
            ELSE Cleaned(IF clean_subtitle_content THEN clean_subtitle_blocks(stripped)
                         ELSE stripped)
        Parsed(subs) ==
            IF subs = <<>>
            THEN Computed("fail", "No valid subtitle blocks found", <<>>, <<>>, <<>>)
            ELSE Stripped(strip_existing_plot_blocks(subs))
    IN Parsed(parse_srt(lines))

\* ------------------------------------------------------------------------
\* Inputs drawn by the specifications
\* ------------------------------------------------------------------------
Words(n, w) == JoinSp([i \in 1..n |-> <<w>>])

Movie(title, imdb, runtime, director, actors, plot) ==
    [title |-> title, year |-> <<"2020">>, imdb_rating |-> imdb, rotten_tomatoes |-> <<>>,
     runtime |-> runtime, director |-> director, actors |-> actors,
     released |-> <<>>, genre |-> <<>>, plot |-> plot]

\* a 20-word plot of one sentence (99 characters)
Plot20 == Words(19, "w4") \o <<"SP", "w4.">>

\* a 20-word plot of one sentence too long for one display chunk
Plot20Wide == Words(16, "w4") \o <<"SP">> \o Words(3, "w30") \o <<"SP", "w30.">>

\* three sentences, more than one display chunk
PlotThree == <<"w30", "SP", "w30", "SP", "w30.", "SP", "w30", "SP", "w30", "SP", "w30.",
               "SP", "w4", "SP", "w4.">>

\* eight short sentences of 51 characters
PlotMany == JoinSp([i \in 1..8 |-> <<"w50.">>])

\* a run-on sentence longer than one chunk
PlotRunOn == Words(7, "w30") \o <<"SP", "w30.", "SP", "w4", "SP", "w4", "SP", "w4">>

\* a one-word sentence on each side of a sentence of 22 words and 110
\* characters: three display chunks, none of which merges with its neighbour
PlotShortLongShort == <<"w4.", "SP">> \o Words(21, "w4") \o <<"SP", "w4.", "SP", "w4.">>

Plots == {<<>>, <<"SP">>, <<"w4">>, Plot20, Plot20Wide, PlotThree, PlotMany, PlotRunOn,
          PlotShortLongShort}

\* a title that carries sentinel text
NestedTitle == <<"{", "SUB", "{", "SUB", "LOGUE", "}", "LOGUE", "}">>

MovieShort == Movie(<<"w4">>, <<"8.5">>, <<"120", "SP", "min">>, <<"Bob">>, <<>>, Plot20)

MovieLong == Movie(Words(4, "w4"), <<>>, <<>>, <<>>,
                   <<(<<"Bob">>), <<"Bob">>, <<"Bob">>, <<"Bob">>>>, PlotThree)

MovieNested == Movie(NestedTitle, <<>>, <<>>, <<>>, <<>>, Plot20)

\* a record whose title is empty
MovieUntitled == Movie(<<>>, <<"8.5">>, <<>>, <<"Bob">>, <<>>, Plot20)

Movies == {MovieShort, MovieLong, MovieNested, MovieUntitled}

FormatOptions(bold, italic, extras) ==
    [title_bold |-> bold, plot_italic |-> italic, show_director |-> extras,
     show_actors |-> extras, show_released |-> extras, show_genre |-> extras]

DEFAULT_FORMAT_OPTIONS == FormatOptions(TRUE, TRUE, FALSE)

FormatOptionsSet == {DEFAULT_FORMAT_OPTIONS, FormatOptions(FALSE, FALSE, TRUE)}

\* start of the first dialogue entry, in ms
FirstStarts == {0, 900, 1699, 1700, 2000, 4875, 5250, 5625, 6000, 6500, 7700, 8000,
                10000, 15000, 30000}

DEFAULT_SAFE_GAP_MS == 500

SafeGaps == {0, 1, DEFAULT_SAFE_GAP_MS, 1000}

\* ------------------------------------------------------------------------
\* Files drawn by the specifications
\* ------------------------------------------------------------------------
Entry(i, start, end, textlines) ==
    <<TextLine(IndexText(i)), TcLine(_ms_to_timecode(start), _ms_to_timecode(end))>>
    \o [k \in 1..Len(textlines) |-> TextLine(textlines[k])] \o <<BlankLine>>

\* two dialogue entries, the first at 10 s
FileFresh == Entry(1, 10000, 12500, <<Words(2, "w4")>>)
             \o Entry(2, 13000, 15000, <<Words(3, "w4"), <<"w4.">>>>)

\* the first dialogue entry starts at 1 s: no room for an intro
FileEarly == Entry(1, 1000, 3000, <<Words(2, "w4")>>) \o Entry(2, 4000, 6000, <<<<"w4.">>>>)

\* no index lines, odd spacing, an ad, timecodes with 99 minutes and seconds
FileOdd == <<TcLine(Tc(0, 0, 8, 0), Tc(0, 0, 9, 0)), TextLine(<<"SP", "w4", "SP", "SP", "w4">>),
             TextLine(<<"SP">>),
             TcLine(Tc(0, 1, 0, 0), Tc(0, 1, 1, 0)), TextLine(<<"YTS">>), BlankLine,
             TcLine(Tc(0, 99, 99, 0), Tc(99, 99, 99, 999)), TextLine(<<"w4", "SP", "--">>),
             TextLine(<<"7">>)>>

\* a file from an earlier version: tagged blocks ahead of the dialogue
FileTagged == Entry(1, 0, 5000, <<SUBLOGUE_SENTINEL, <<"w4">>>>)
              \o Entry(2, 0, 0, <<<<"w4">>>>)
              \o Entry(3, 9000, 9500, <<Words(2, "w4")>>)
              \o Entry(4, 9600, 9700, <<<<"{", "SUB", "LOGUE", ":", "w4", "}", "w4">>>>)

\* generated blocks only
FileNoDialogue == Entry(1, 0, 5000, <<SUBLOGUE_SENTINEL, <<"w4">>>>)

\* nothing that parses
FileGarbage == <<TextLine(<<"w4">>), BlankLine, TextLine(<<"w4.">>)>>

MAX_SRT_BYTES == 5 * 1024 * 1024

\* ------------------------------------------------------------------------
\* State
\* ------------------------------------------------------------------------
Callers == {"A", "B"}

VARIABLES
    b_args,     \* the arguments of the build_intro_blocks call under check
    b_result,   \* its outcome, once it has run
    codec,      \* the entry list under check, formatted and parsed back
    split,      \* the plot text under check and its display chunks
    reading,    \* the text under check and its reading duration
    engine,     \* the AutomationEngine, its rule store and its calling threads
    target,     \* the subtitle file at file_path
    tmp,        \* the file at file_path.with_suffix(".srt.tmp")
    lock,       \* the LockMarker at file_path + ".lock"
    clock,      \* the time, in ticks
    pc,         \* where each caller of process_file is
    call,       \* the arguments of each caller's current call
    wait_start, \* start_time of file_lock
    computed,   \* the text each caller is about to write
    result,     \* what each caller's call returned
    hist        \* history of each call, for the properties

bvars == <<b_args, b_result, codec, split, reading, engine>>

fvars == <<target, tmp, lock, clock>>

pvars == <<pc, call, wait_start, computed, result, hist>>

vars == <<bvars, fvars, pvars>>

NoResult == [done |-> FALSE, raised |-> FALSE, blocks |-> <<>>]

NoArgs == [movie |-> MovieShort, plot |-> <<>>, first |-> 0, gap |-> 0,
           fo |-> DEFAULT_FORMAT_OPTIONS]

\* step: 0 before format_srt, 1 after it, 2 after parse_srt of its output
NoCodec == [entries |-> <<>>, formatted |-> <<>>, parsed |-> <<>>, step |-> 0]

\* done: _split_plot_into_display_chunks has run; merged_done:
\* _merge_small_trailing_chunks has run on its chunks
NoSplit == [plot |-> <<>>, chunks |-> <<>>, done |-> FALSE,
            merged |-> <<>>, merged_done |-> FALSE]

NoReading == [text |-> <<>>, ms |-> 0, done |-> FALSE]

\* the threads that call the AutomationEngine and the rules of its store
EngineThreads == {"T1", "T2"}

RuleIds == {"r1", "r2"}

\* AutomationEngine.__init__ with an empty rule store, no thread inside a
\* method. lock: the thread that has acquired self._lock, or "free";
\* running: the state of self._scheduler; jobs: its jobs, by rule id;
\* frame: "start" while the thread's reload_rules was called by start
NoEngine == [lock |-> "free", started |-> FALSE, running |-> FALSE, jobs |-> {},
             rules |-> [r \in RuleIds |-> "absent"],
             pc |-> [t \in EngineThreads |-> "idle"],
             frame |-> [t \in EngineThreads |-> "none"]]

\* no call of the codec, of the chunk splitter or of the reading time is
\* under check, and the automation engine is not used
PureIdle == codec = NoCodec /\ split = NoSplit /\ reading = NoReading /\ engine = NoEngine

\* no build_intro_blocks call is under check
BuildIdle == b_args = NoArgs /\ b_result = NoResult /\ PureIdle

NoFile == [exists |-> FALSE, lines |-> <<>>, pad |-> 0, partial |-> FALSE, writers |-> {}]

File(lines, pad) ==
    [exists |-> TRUE, lines |-> lines, pad |-> pad, partial |-> FALSE, writers |-> {}]

NoLock == [exists |-> FALSE, owner |-> "none", mtime |-> 0]

NoCall == [force_reprocess |-> FALSE, title_override |-> FALSE, found |-> FALSE,
           movie |-> MovieShort, fo |-> DEFAULT_FORMAT_OPTIONS,
           clean_subtitle_content |-> TRUE]

NoComputed == Computed("none", "", <<>>, <<>>, <<>>)

Result(status, error) == [status |-> status, error |-> error]

\* runs: calls begun; acquired: the marker was created; timed_out: the wait
\* ended in FileLockError; cs_step: a step of the critical section ran;
\* modified: a step of this call changed the content at the target path;
\* before: the target at the start of the call; read: the lines parsed;
\* prev, prev_default, prev_call: status and arguments of the previous call;
\* fetched: what the metadata source answered for this file name;
\* reclaimed: file_lock unlinked a marker it took for stale
NoHist == [runs |-> 0, acquired |-> FALSE, timed_out |-> FALSE, cs_step |-> FALSE,
           modified |-> FALSE, before |-> NoFile, read |-> <<>>, killed |-> FALSE,
           prev |-> "none", prev_default |-> FALSE, prev_call |-> NoCall,
           fetched |-> <<>>, reclaimed |-> FALSE]

\* no process_file call is under way
ProcIdle ==
    /\ target = NoFile /\ tmp = NoFile /\ lock = NoLock /\ clock = 0
    /\ pc = [p \in Callers |-> "idle"]
    /\ call = [p \in Callers |-> NoCall]
    /\ wait_start = [p \in Callers |-> 0]
    /\ computed = [p \in Callers |-> NoComputed]
    /\ result = [p \in Callers |-> Result("none", "")]
    /\ hist = [p \in Callers |-> NoHist]

\* ------------------------------------------------------------------------
\* Specification of a call of build_intro_blocks
\* ------------------------------------------------------------------------
InitBuild ==
    /\ b_args \in [movie : Movies, plot : Plots, first : FirstStarts, gap : SafeGaps,
                   fo : FormatOptionsSet]
    /\ b_result = NoResult
    /\ PureIdle
    /\ ProcIdle

BuildIntroBlocksCall ==
    /\ ~b_result.done
    /\ LET r == build_intro_blocks(b_args.movie, b_args.plot, b_args.first, b_args.gap,
                                   b_args.fo)
       IN b_result' = [done |-> TRUE, raised |-> r.raised, blocks |-> r.blocks]
    /\ UNCHANGED <<b_args, codec, split, reading, engine, fvars, pvars>>

NextBuild == BuildIntroBlocksCall

SpecBuild == InitBuild /\ [][NextBuild]_vars

\* C1: for every metadata record, plot text, first_subtitle_start_ms >= 0 and
\* safety gap, build_intro_blocks returns an empty list or a list whose last
\* block ends strictly before first_subtitle_start_ms; its final assertion
\* never fails.
C1_NonOverlapAlways ==
    b_result.done =>
        /\ ~b_result.raised
        /\ (b_result.blocks = <<>> \/ Last(b_result.blocks).end_time < b_args.first)

\* ------------------------------------------------------------------------
\* process_file and file_lock, one step per access to the file system
\* ------------------------------------------------------------------------
LOCK_TIMEOUT_S == 30

STALE_LOCK_S == 60

\* the clock advances in steps just longer than the lock timeout
TickSeconds == LOCK_TIMEOUT_S + 1

MaxTicks == 3

MaxKills == 1

MaxRuns == 2

Now == clock * TickSeconds

FileSize(f) == f.pad + SumSeq([i \in 1..Len(f.lines) |->
                                   (IF f.lines[i].tc THEN 29 ELSE TextLen(f.lines[i].t)) + 1])

\* the steps between the acquisition of the lock and its release
CriticalSection == {"recheck", "read", "write_open", "write", "replace"}

LockErrorText == "File is being processed by another task: Could not acquire lock"

IsDefaultCall(c) == ~c.force_reprocess /\ ~c.title_override

Options(forces, overrides, fos, cleans) ==
    {[NoCall EXCEPT !.force_reprocess = f, !.title_override = o, !.fo = fo,
                    !.clean_subtitle_content = c, !.found = o,
                    !.movie = IF o THEN MovieLong ELSE MovieShort] :
        f \in forces, o \in overrides, fo \in fos, c \in cleans}

\* return self._fail(msg), or an exception leaving process_file
Finish(p, r) ==
    /\ result' = [result EXCEPT ![p] = r]
    /\ pc' = [pc EXCEPT ![p] = "done"]

\* the same from inside the with block: the finally clause runs next
Leave(p, r) ==
    /\ result' = [result EXCEPT ![p] = r]
    /\ pc' = [pc EXCEPT ![p] = "release"]

\* a step of the critical section is on record
Step(p) == [hist EXCEPT ![p].cs_step = TRUE]

\* entry of process_file: the existence and size checks
Begin(p, opts) ==
    /\ pc[p] = "idle"
    /\ hist[p].runs < MaxRuns
    /\ \E c \in opts : call' = [call EXCEPT ![p] = c]
    /\ hist' = [hist EXCEPT ![p] = [NoHist EXCEPT !.runs = hist[p].runs + 1,
                                                  !.before = target,
                                                  !.prev = hist[p].prev,
                                                  !.prev_default = hist[p].prev_default,
                                                  !.prev_call = hist[p].prev_call,
                                                  !.fetched = hist[p].fetched]]
    /\ computed' = [computed EXCEPT ![p] = NoComputed]
    /\ IF ~target.exists THEN Finish(p, Result("Error", "File not found"))
       ELSE IF FileSize(target) > MAX_SRT_BYTES
       THEN Finish(p, Result("Error", "Subtitle file too large"))
       ELSE /\ pc' = [pc EXCEPT ![p] = "fetch"]
            /\ result' = [result EXCEPT ![p] = Result("none", "")]
    /\ UNCHANGED <<bvars, fvars, wait_start>>

\* the metadata: title_override, or what _fetch_summary returns for the
\* name of the file, the same answer every time it is asked
Fetch(p, metas) ==
    /\ pc[p] = "fetch"
    /\ \E m \in (IF call[p].title_override THEN {[found |-> TRUE, movie |-> call[p].movie]}
                 ELSE IF hist[p].fetched # <<>> THEN {hist[p].fetched[1]}
                 ELSE metas) :
          /\ call' = [call EXCEPT ![p].found = m.found, ![p].movie = m.movie]
          /\ hist' = [hist EXCEPT ![p].fetched = IF call[p].title_override THEN @ ELSE <<m>>]
          /\ IF ~m.found THEN Finish(p, Result("Error", "No metadata found"))
             ELSE IF Strip(m.movie.plot) = <<>> THEN Finish(p, Result("Error", "Empty plot"))
             ELSE /\ pc' = [pc EXCEPT ![p] = "lock_create"]
                  /\ UNCHANGED result
    /\ wait_start' = [wait_start EXCEPT ![p] = Now]
    /\ UNCHANGED <<bvars, fvars, computed>>

\* a lock that is taken first, the metadata being fetched under it
LockCreate_ThenFetch(p) ==
    /\ pc[p] = "lock_create"
    /\ IF ~lock.exists
       THEN /\ lock' = [exists |-> TRUE, owner |-> p, mtime |-> Now]
            /\ pc' = [pc EXCEPT ![p] = IF hist[p].acquired THEN "recheck" ELSE "fetch"]
            /\ hist' = [hist EXCEPT ![p].acquired = TRUE]
       ELSE /\ pc' = [pc EXCEPT ![p] = "lock_stat"]
            /\ UNCHANGED <<lock, hist>>
    /\ UNCHANGED <<bvars, target, tmp, clock, call, wait_start, computed, result>>

\* os.open(lock_path, O_CREAT | O_EXCL | O_WRONLY)
LockCreate(p) ==
    /\ pc[p] = "lock_create"
    /\ IF ~lock.exists
       THEN /\ lock' = [exists |-> TRUE, owner |-> p, mtime |-> Now]
            /\ pc' = [pc EXCEPT ![p] = "recheck"]
            /\ hist' = [hist EXCEPT ![p].acquired = TRUE]
       ELSE /\ pc' = [pc EXCEPT ![p] = "lock_stat"]
            /\ UNCHANGED <<lock, hist>>
    /\ UNCHANGED <<bvars, target, tmp, clock, call, wait_start, computed, result>>

\* lock_path.stat() and the staleness test
LockStat(p) ==
    /\ pc[p] = "lock_stat"
    /\ pc' = [pc EXCEPT ![p] = IF lock.exists /\ Now - lock.mtime > STALE_LOCK_S
                               THEN "lock_unlink" ELSE "lock_timeout"]
    /\ UNCHANGED <<bvars, fvars, call, wait_start, computed, result, hist>>

\* lock_path.unlink(missing_ok=True); continue
LockUnlinkStale(p) ==
    /\ pc[p] = "lock_unlink"
    /\ lock' = NoLock
    /\ pc' = [pc EXCEPT ![p] = "lock_create"]
    /\ hist' = [hist EXCEPT ![p].reclaimed = TRUE]
    /\ UNCHANGED <<bvars, target, tmp, clock, call, wait_start, computed, result>>

\* a waiting loop that gives up waiting and goes on into the with block
TimedOut_Proceeds(p) ==
    /\ lock' = NoLock
    /\ hist' = [hist EXCEPT ![p].timed_out = TRUE]
    /\ pc' = [pc EXCEPT ![p] = "recheck"]
    /\ UNCHANGED result

\* what the waiting loop does once the timeout has passed
TimedOut(p) ==
    /\ lock' = NoLock
    /\ hist' = [hist EXCEPT ![p].timed_out = TRUE]
    /\ Finish(p, Result("Error", LockErrorText))

\* a waiting loop with no timeout: sleep and retry, whatever the time
LockCheckTimeout_NeverRaises(p) ==
    /\ pc[p] = "lock_timeout"
    /\ pc' = [pc EXCEPT ![p] = "lock_create"]
    /\ UNCHANGED <<lock, hist, result>>
    /\ UNCHANGED <<bvars, target, tmp, clock, call, wait_start, computed>>

\* the timeout test; FileLockError passes through the finally clause of
\* file_lock and is caught by process_file; otherwise sleep and retry
LockCheckTimeout(p) ==
    /\ pc[p] = "lock_timeout"
    /\ IF Now - wait_start[p] > LOCK_TIMEOUT_S
       THEN TimedOut(p)
       ELSE /\ pc' = [pc EXCEPT ![p] = "lock_create"]
            /\ UNCHANGED <<lock, hist, result>>
    /\ UNCHANGED <<bvars, target, tmp, clock, call, wait_start, computed>>

\* the re-check inside the lock
Recheck(p) ==
    /\ pc[p] = "recheck"
    /\ hist' = Step(p)
    /\ IF _has_plot_fast(target.lines) /\ ~call[p].force_reprocess /\ ~call[p].title_override
       THEN Leave(p, Result("Skipped", ""))
       ELSE /\ pc' = [pc EXCEPT ![p] = "read"]
            /\ UNCHANGED result
    /\ UNCHANGED <<bvars, fvars, call, wait_start, computed>>

\* phases 1 to 6
ReadAndBuild(p) ==
    /\ pc[p] = "read"
    /\ \E c \in {ProcessContent(target.lines, call[p].movie, Strip(call[p].movie.plot),
                                call[p].fo, call[p].clean_subtitle_content)} :
          /\ computed' = [computed EXCEPT ![p] = c]
          /\ hist' = [Step(p) EXCEPT ![p].read = target.lines]
          /\ CASE c.kind = "fail" -> Leave(p, Result("Error", c.error))
               [] c.kind = "raise" -> Leave(p, Result("Exception", c.error))
               [] OTHER -> /\ pc' = [pc EXCEPT ![p] = "write_open"]
                           /\ UNCHANGED result
    /\ UNCHANGED <<bvars, fvars, call, wait_start>>

IOError == Result("Exception", "OSError")

\* tmp.write_text, first half: open(tmp, "w") creates or truncates the file
WriteOpen(p) ==
    /\ pc[p] = "write_open"
    /\ \/ /\ tmp' = [exists |-> TRUE, lines |-> <<>>, pad |-> 0, partial |-> TRUE,
                     writers |-> tmp.writers \cup {p}]
          /\ pc' = [pc EXCEPT ![p] = "write"]
          /\ UNCHANGED result
       \/ /\ Leave(p, IOError)
          /\ UNCHANGED tmp
    /\ hist' = Step(p)
    /\ UNCHANGED <<bvars, target, lock, clock, call, wait_start, computed>>

\* the file f after p wrote all of its text to it and closed it
Written(f, p) ==
    [f EXCEPT !.lines = computed[p].out, !.writers = @ \ {p},
              !.partial = (f.writers \ {p} # {})]

\* the file f after p's write stopped half way
HalfWritten(f, p) ==
    [f EXCEPT !.lines = SubSeq(computed[p].out, 1, Len(computed[p].out) \div 2),
              !.writers = @ \ {p}, !.partial = TRUE]

\* tmp.write_text, second half: the text goes to the file that was opened,
\* wherever its name is by now
WriteFinish(p) ==
    /\ pc[p] = "write"
    /\ \E ok \in BOOLEAN :
          /\ IF p \in tmp.writers
             THEN /\ tmp' = IF ok THEN Written(tmp, p) ELSE HalfWritten(tmp, p)
                  /\ UNCHANGED target
                  /\ hist' = Step(p)
             ELSE IF p \in target.writers
             THEN /\ target' = IF ok THEN Written(target, p) ELSE HalfWritten(target, p)
                  /\ UNCHANGED tmp
                  /\ hist' = [Step(p) EXCEPT ![p].modified = TRUE]
             ELSE /\ UNCHANGED <<target, tmp>>
                  /\ hist' = Step(p)
          /\ IF ok THEN /\ pc' = [pc EXCEPT ![p] = "replace"]
                        /\ UNCHANGED result
             ELSE Leave(p, IOError)
    /\ UNCHANGED <<bvars, lock, clock, call, wait_start, computed>>

\* tmp.replace(file_path)
Replace(p) ==
    /\ pc[p] = "replace"
    /\ \/ /\ tmp.exists
          /\ target' = tmp
          /\ tmp' = NoFile
          /\ hist' = [Step(p) EXCEPT ![p].modified = TRUE]
          /\ Leave(p, Result("Processed", ""))
       \/ /\ ~tmp.exists
          /\ Leave(p, Result("Exception", "FileNotFoundError"))
          /\ hist' = Step(p)
          /\ UNCHANGED <<target, tmp>>
       \/ /\ Leave(p, IOError)
          /\ hist' = Step(p)
          /\ UNCHANGED <<target, tmp>>
    /\ UNCHANGED <<bvars, lock, clock, call, wait_start, computed>>

\* a release that is skipped when the with block is left on an exception
Release_OnReturnOnly(p) ==
    /\ pc[p] = "release"
    /\ lock' = IF result[p].status = "Exception" THEN lock ELSE NoLock
    /\ pc' = [pc EXCEPT ![p] = "done"]
    /\ UNCHANGED <<bvars, target, tmp, clock, call, wait_start, computed, result, hist>>

\* the finally clause of file_lock: lock_path.unlink(missing_ok=True)
Release(p) ==
    /\ pc[p] = "release"
    /\ lock' = NoLock
    /\ pc' = [pc EXCEPT ![p] = "done"]
    /\ UNCHANGED <<bvars, target, tmp, clock, call, wait_start, computed, result, hist>>

Dropped(f, p) == [f EXCEPT !.writers = @ \ {p}]

\* the process of caller p is killed: what it held in memory is gone, what
\* it did to the file system stays
Kill(p) ==
    /\ pc[p] \notin {"idle", "done", "killed"}
    /\ Cardinality({q \in Callers : hist[q].killed}) < MaxKills
    /\ pc' = [pc EXCEPT ![p] = "killed"]
    /\ hist' = [hist EXCEPT ![p] = [NoHist EXCEPT !.killed = TRUE]]
    /\ call' = [call EXCEPT ![p] = NoCall]
    /\ wait_start' = [wait_start EXCEPT ![p] = 0]
    /\ computed' = [computed EXCEPT ![p] = NoComputed]
    /\ tmp' = Dropped(tmp, p)
    /\ target' = Dropped(target, p)
    /\ UNCHANGED <<bvars, lock, clock, result>>

\* time passes; only the time that passes while a marker exists is counted,
\* the waiting loop and the staleness test measure nothing else
Tick ==
    /\ clock < MaxTicks
    /\ lock.exists
    /\ \E p \in Callers : pc[p] \notin {"idle", "done", "killed"}
    /\ clock' = clock + 1
    /\ UNCHANGED <<bvars, target, tmp, lock, pvars>>

\* after a call that succeeded, the caller comes back for another call
Again(p) ==
    /\ pc[p] = "done"
    /\ result[p].status \in {"Processed", "Skipped"}
    /\ hist[p].runs < MaxRuns
    /\ pc' = [pc EXCEPT ![p] = "idle"]
    /\ hist' = [hist EXCEPT ![p] = [NoHist EXCEPT !.runs = hist[p].runs,
                                                  !.prev = result[p].status,
                                                  !.prev_default = IsDefaultCall(call[p]),
                                                  !.prev_call = call[p],
                                                  !.fetched = hist[p].fetched]]
    /\ call' = [call EXCEPT ![p] = NoCall]
    /\ wait_start' = [wait_start EXCEPT ![p] = 0]
    /\ computed' = [computed EXCEPT ![p] = NoComputed]
    /\ result' = [result EXCEPT ![p] = Result("none", "")]
    /\ UNCHANGED <<bvars, fvars>>

Meta(found, movie) == [found |-> found, movie |-> movie]

\* a marker left by a process that was killed while it held the lock
OrphanLock == [exists |-> TRUE, owner |-> "gone", mtime |-> 0]

MovieNoPlot == Movie(<<"w4">>, <<>>, <<>>, <<>>, <<>>, <<"SP">>)

\* ------------------------------------------------------------------------
\* Concurrent callers of process_file on one path
\* ------------------------------------------------------------------------
ConcFiles == {File(FileFresh, 0), File(FileEarly, 0)}

\* every caller calls with the default options
ConcOptions == Options({FALSE}, {FALSE}, {DEFAULT_FORMAT_OPTIONS}, {TRUE})

ConcMetas == {Meta(FALSE, MovieShort), Meta(TRUE, MovieShort)}

Init ==
    /\ BuildIdle
    /\ target \in ConcFiles
    /\ tmp = NoFile /\ lock \in {NoLock, OrphanLock} /\ clock = 0
    /\ pc = [p \in Callers |-> "idle"]
    /\ call = [p \in Callers |-> NoCall]
    /\ wait_start = [p \in Callers |-> 0]
    /\ computed = [p \in Callers |-> NoComputed]
    /\ result = [p \in Callers |-> Result("none", "")]
    /\ hist = [p \in Callers |-> NoHist]

Next ==
    \/ \E p \in Callers : Begin(p, ConcOptions)
    \/ \E p \in Callers : Fetch(p, ConcMetas)
    \/ \E p \in Callers : LockCreate(p)
    \/ \E p \in Callers : LockStat(p)
    \/ \E p \in Callers : LockUnlinkStale(p)
    \/ \E p \in Callers : LockCheckTimeout(p)
    \/ \E p \in Callers : Recheck(p)
    \/ \E p \in Callers : ReadAndBuild(p)
    \/ \E p \in Callers : WriteOpen(p)
    \/ \E p \in Callers : WriteFinish(p)
    \/ \E p \in Callers : Replace(p)
    \/ \E p \in Callers : Release(p)
    \/ \E p \in Callers : Kill(p)
    \/ Tick

Spec == Init /\ [][Next]_vars

\* ------------------------------------------------------------------------
\* One caller, calling process_file again and again
\* ------------------------------------------------------------------------
SeqCaller == "A"

SeqFiles == {File(FileFresh, 0), File(FileEarly, 0), File(FileOdd, 0), File(FileTagged, 0),
             File(FileNoDialogue, 0), File(FileGarbage, 0),
             File(FileFresh, MAX_SRT_BYTES), NoFile}

\* the default call, and the calls that differ from it in one option
SeqOptions == Options({FALSE}, {FALSE}, FormatOptionsSet, BOOLEAN)
              \cup Options({TRUE}, {FALSE}, {DEFAULT_FORMAT_OPTIONS}, {TRUE})
              \cup Options({FALSE}, {TRUE}, {DEFAULT_FORMAT_OPTIONS}, {TRUE})

SeqMetas == {Meta(FALSE, MovieShort), Meta(TRUE, MovieNoPlot), Meta(TRUE, MovieShort),
             Meta(TRUE, MovieNested)}

InitSeq ==
    /\ BuildIdle
    /\ target \in SeqFiles
    /\ tmp = NoFile /\ lock \in {NoLock, OrphanLock} /\ clock = 0
    /\ pc = [p \in Callers |-> "idle"]
    /\ call = [p \in Callers |-> NoCall]
    /\ wait_start = [p \in Callers |-> 0]
    /\ computed = [p \in Callers |-> NoComputed]
    /\ result = [p \in Callers |-> Result("none", "")]
    /\ hist = [p \in Callers |-> NoHist]

NextSeq ==
    \/ Begin(SeqCaller, SeqOptions)
    \/ Fetch(SeqCaller, SeqMetas)
    \/ LockCreate(SeqCaller)
    \/ LockStat(SeqCaller)
    \/ LockUnlinkStale(SeqCaller)
    \/ LockCheckTimeout(SeqCaller)
    \/ Recheck(SeqCaller)
    \/ ReadAndBuild(SeqCaller)
    \/ WriteOpen(SeqCaller)
    \/ WriteFinish(SeqCaller)
    \/ Replace(SeqCaller)
    \/ Release(SeqCaller)
    \/ Again(SeqCaller)
    \/ Kill(SeqCaller)
    \/ Tick

SpecSeq == InitSeq /\ [][NextSeq]_vars

\* ------------------------------------------------------------------------
\* Properties of process_file
\* ------------------------------------------------------------------------
Triples(blocks) ==
    [i \in 1..Len(blocks) |-> <<blocks[i].start_time, blocks[i].end_time, blocks[i].text>>]

RECURSIVE EntryTextEnd(_, _)
EntryTextEnd(lines, j) ==
    IF j > Len(lines) \/ lines[j].tc \/ lines[j].t = <<>> THEN j
    ELSE EntryTextEnd(lines, j + 1)

RECURSIVE EntriesFrom(_, _)
\* the entries of a file as a player reads them: a timecode line, whatever
\* the width of its fields, then the text up to the next blank line
EntriesFrom(lines, i) ==
    IF i > Len(lines) THEN <<>>
    ELSE IF ~lines[i].tc THEN EntriesFrom(lines, i + 1)
    ELSE LET j == EntryTextEnd(lines, i + 1)
         IN <<<<_timecode_to_ms(lines[i].from), _timecode_to_ms(lines[i].to),
                JoinNl([k \in 1..(j - i - 1) |-> lines[i + k].t])>>>>
            \o EntriesFrom(lines, j)

WrittenEntries(lines) == EntriesFrom(lines, 1)

\* the dialogue entries of the lines a call read
Dialogue(lines) == strip_existing_plot_blocks(parse_srt(lines))

\* the ad-cleaning step changed nothing in this call
AdCleaningIsIdentity(p) ==
    \/ ~call[p].clean_subtitle_content
    \/ clean_subtitle_blocks(Dialogue(hist[p].read)) = Dialogue(hist[p].read)

\* the call of p wrote the file and the file is still as p wrote it
Wrote(p) ==
    /\ pc[p] \in {"release", "done"}
    /\ result[p].status = "Processed"
    /\ target.lines = computed[p].out

\* C2: for every process_file run that writes the file, the dialogue entries
\* of the input (those that survive strip_existing_plot_blocks, ad-cleaning
\* being an identity step) are the last entries of the written file, with the
\* same (start_ms, end_ms, text) triples in the same order.
C2_DialoguePreserved ==
    \A p \in Callers :
        (Wrote(p) /\ AdCleaningIsIdentity(p)) =>
            LET orig == Triples(Dialogue(hist[p].read))
                w == WrittenEntries(target.lines)
            IN /\ Len(w) >= Len(orig)
               /\ SubSeq(w, Len(w) - Len(orig) + 1, Len(w)) = orig

\* a run wrote intro blocks ahead of several dialogue entries that the
\* ad-cleaning step would have changed, had it been on
C2_Witness ==
    \E p \in Callers :
        /\ Wrote(p) /\ AdCleaningIsIdentity(p)
        /\ computed[p].intro # <<>>
        /\ Len(Dialogue(hist[p].read)) >= 3
        /\ clean_subtitle_blocks(Dialogue(hist[p].read)) # Dialogue(hist[p].read)

\* C3: no entry of a file written by process_file contains a sentinel token,
\* whatever the subtitle text and whatever the metadata record supplies.
C3_NoSentinelWritten ==
    \A p \in Callers :
        Wrote(p) =>
            \A i \in 1..Len(target.lines) :
                ~SUBLOGUE_TOKEN_PATTERN_search(target.lines[i].t)

\* C4: a second run of process_file with default options, after a first run
\* with default options, returns Skipped and leaves the file as it was.
C4_SecondRunSkipped ==
    \A p \in Callers :
        (/\ pc[p] = "done"
         /\ hist[p].runs >= 2
         /\ hist[p].prev_default
         /\ IsDefaultCall(call[p])
         /\ result[p].status \in {"Processed", "Skipped"}) =>
            /\ result[p].status = "Skipped"
            /\ target = hist[p].before

\* C5: at most one caller is inside the critical section guarded by
\* file_lock, in every reachable state.
C5_MutualExclusion ==
    Cardinality({p \in Callers : pc[p] \in CriticalSection}) <= 1

\* the header lines in a file: one for each generation of intro blocks
Generations(lines) ==
    Cardinality({i \in 1..Len(lines) :
                    Contains(Lower(lines[i].t), <<"generated", "SP", "by", "SP", "sublogue">>)})

Returned(status) == {p \in Callers : pc[p] = "done" /\ result[p].status = status}

\* every caller ran on the same file without generated content, with the
\* default options, and got Processed, Skipped or the lock failure
ConcurrentRunOver ==
    /\ \A p \in Callers :
          /\ pc[p] = "done"
          /\ IsDefaultCall(call[p])
          /\ \/ result[p].status \in {"Processed", "Skipped"}
             \/ result[p] = Result("Error", LockErrorText)
    /\ \A p, q \in Callers : hist[p].before = hist[q].before
    /\ \A p \in Callers : ~_has_plot_fast(hist[p].before.lines)

\* C6: when several callers run process_file at once on a file that is not
\* processed yet, at most one of them returns Processed and the file ends
\* with exactly one generation of intro blocks.
C6_AtomicCheckThenWrite ==
    ConcurrentRunOver =>
        /\ Cardinality(Returned("Processed")) <= 1
        /\ (Returned("Processed") # {} => Generations(target.lines) = 1)

\* C7: the target file is never a partially written file, whether or not a
\* caller was killed.
C7_TargetNeverPartial == target.exists => ~target.partial

\* C8: a call that created the marker has removed it when it ends, and no
\* marker of a caller is left once every caller has finished.
C8_MarkerRemoved ==
    /\ \A p \in Callers : pc[p] = "done" => ~(lock.exists /\ lock.owner = p)
    /\ (\A p \in Callers : pc[p] \in {"idle", "done"}) =>
           (lock.exists => lock.owner \notin Callers)

\* every caller has finished, one of them left the critical section on an
\* exception and another on a return
C8_Witness ==
    /\ \A p \in Callers : pc[p] = "done"
    /\ \E p, q \in Callers :
          /\ hist[p].acquired /\ result[p].status = "Exception"
          /\ hist[q].acquired /\ result[q].status \in {"Processed", "Skipped", "Error"}
    /\ ~lock.exists

\* C9: a caller whose wait for the marker timed out returns the Error result
\* with the lock message, ran no step of the critical section and did not
\* change the target file.
C9_TimeoutIsError ==
    \A p \in Callers :
        hist[p].timed_out =>
            /\ pc[p] = "done"
            /\ result[p] = Result("Error", LockErrorText)
            /\ ~hist[p].acquired
            /\ ~hist[p].cs_step
            /\ ~hist[p].modified

\* a caller timed out while another caller was inside the critical section
C9_Witness ==
    \E p, q \in Callers :
        /\ hist[p].timed_out /\ pc[p] = "done"
        /\ pc[q] \in CriticalSection

\* C10: a call that ends in a failure has not changed the content of the
\* target file.
C10_FailureLeavesTarget ==
    \A p \in Callers :
        (pc[p] = "done" /\ result[p].status \in {"Error", "Exception"}) =>
            ~hist[p].modified

\* C11: every call of process_file that ends returns a result whose status
\* is Processed, Skipped or Error, also when writing the temporary file or
\* renaming it fails; no exception leaves process_file.
C11_AlwaysResult ==
    \A p \in Callers :
        pc[p] = "done" => result[p].status \in {"Processed", "Skipped", "Error"}

\* C12: after process_file has written the file, parse_srt of the written
\* file followed by strip_existing_plot_blocks yields exactly the dialogue
\* entries of the input, with the same (start_ms, end_ms, text) triples:
\* every generated block is removed and nothing else.
C12_ReparseYieldsDialogue ==
    \A p \in Callers :
        (Wrote(p) /\ AdCleaningIsIdentity(p)) =>
            Triples(Dialogue(target.lines)) = Triples(Dialogue(hist[p].read))

\* the call of p came after a call that wrote the file, forces the processing
\* and has the metadata and the options of that call
ReprocessedSame(p) ==
    /\ pc[p] = "done"
    /\ hist[p].runs >= 2
    /\ hist[p].prev = "Processed"
    /\ result[p].status = "Processed"
    /\ call[p].force_reprocess \/ call[p].title_override
    /\ call[p].movie = hist[p].prev_call.movie
    /\ call[p].fo = hist[p].prev_call.fo
    /\ call[p].clean_subtitle_content = hist[p].prev_call.clean_subtitle_content

\* C13: processing a processed file again with force_reprocess or a
\* title_override and the same metadata leaves the file as the first run
\* wrote it: the earlier generation is stripped, nothing is duplicated.
C13_ReprocessIsIdempotent ==
    \A p \in Callers : ReprocessedSame(p) => target.lines = hist[p].before.lines

\* ------------------------------------------------------------------------
\* Specification of format_srt followed by parse_srt
\* ------------------------------------------------------------------------
\* 100 hours, the first time _ms_to_timecode writes with three digits of hours
HundredHours == 100 * 3600 * 1000

\* (start_ms, end_ms) of the entries drawn
CodecTimes == {<<0, 0>>, <<1000, 2000>>, <<3599999, 3600000>>,
               <<HundredHours - 1, HundredHours - 1>>, <<HundredHours - 1, HundredHours>>,
               <<HundredHours, HundredHours + 1>>}

\* texts drawn: one line, several lines, a line of digits, inner spacing
CodecTexts == {<<"w4">>, <<"w4", "SP", "w4", "NL", "w4.">>, <<"7">>,
               <<"w4", "SP", "SP", "w4", "SP", "NL", "7">>}

CodecIndices == {0, 1, 5}

CodecEntries ==
    {SubtitleBlock(i, tm[1], tm[2], t) : i \in CodecIndices, tm \in CodecTimes, t \in CodecTexts}

MaxEntries == 2

CodecLists ==
    UNION {[1..n -> CodecEntries] : n \in 0..MaxEntries}

InitCodec ==
    /\ codec \in {[NoCodec EXCEPT !.entries = E] : E \in CodecLists}
    /\ split = NoSplit /\ reading = NoReading /\ engine = NoEngine
    /\ b_args = NoArgs /\ b_result = NoResult
    /\ ProcIdle

FormatSrtCall ==
    /\ codec.step = 0
    /\ codec' = [codec EXCEPT !.formatted = format_srt(codec.entries), !.step = 1]
    /\ UNCHANGED <<b_args, b_result, split, reading, engine, fvars, pvars>>

ParseSrtCall ==
    /\ codec.step = 1
    /\ codec' = [codec EXCEPT !.parsed = parse_srt(codec.formatted), !.step = 2]
    /\ UNCHANGED <<b_args, b_result, split, reading, engine, fvars, pvars>>

NextCodec == FormatSrtCall \/ ParseSrtCall

SpecCodec == InitCodec /\ [][NextCodec]_vars

\* non-empty trimmed text without blank lines, 0 <= start_ms <= end_ms
WellFormedEntry(b) ==
    /\ b.text # <<>> /\ Strip(b.text) = b.text
    /\ \A i \in 1..Len(SplitLines(b.text)) : Strip(SplitLines(b.text)[i]) # <<>>
    /\ 0 <= b.start_time /\ b.start_time <= b.end_time

WellFormed(E) == \A i \in 1..Len(E) : WellFormedEntry(E[i])

\* C14: for every well-formed entry list E, parse_srt(format_srt(E)) has as
\* many entries as E, with the same (start_ms, end_ms, text) in the same order.
C14_RoundTrip ==
    (codec.step = 2 /\ WellFormed(codec.entries)) =>
        Triples(codec.parsed) = Triples(codec.entries)

\* the text of the line above each timecode line of a file
IndexLines(lines) ==
    LET at == SelectSeq([i \in 1..Len(lines) |-> i], LAMBDA i : lines[i].tc)
    IN [k \in 1..Len(at) |-> IF at[k] > 1 THEN lines[at[k] - 1].t ELSE <<>>]

\* C15: the k-th block format_srt emits carries the index k, whatever the
\* index fields of the entries given to it.
C15_FormatRenumbers ==
    codec.step >= 1 =>
        IndexLines(codec.formatted) = [k \in 1..Len(codec.entries) |-> IndexText(k)]

\* ------------------------------------------------------------------------
\* Specification of _split_plot_into_display_chunks
\* ------------------------------------------------------------------------
MaxPlotAtoms == 4

PlotAtoms == {"w4", "w30", "w50.", "w120", "SP", "NL"}

\* a short sentence before a run-on one: the head of the run-on sentence is a
\* chunk of three words that fits behind the short one
PlotShortThenRunOn == <<"w4.", "SP">> \o Words(3, "w30") \o <<"SP", "w30.">>

\* the plots of several sentences or of a sentence longer than a chunk
LongPlots == {PlotThree, PlotMany, PlotRunOn, PlotShortThenRunOn}

\* every text of up to MaxPlotAtoms atoms, the plots of the builder and the
\* plots made of two of the long ones
SplitPlots ==
    UNION {[1..n -> PlotAtoms] : n \in 0..MaxPlotAtoms}
    \cup Plots
    \cup {p \o <<"SP">> \o q : p \in LongPlots, q \in LongPlots \cup {<<"w4">>}}

InitSplit ==
    /\ split \in {[NoSplit EXCEPT !.plot = t] : t \in SplitPlots}
    /\ codec = NoCodec /\ reading = NoReading /\ engine = NoEngine
    /\ b_args = NoArgs /\ b_result = NoResult
    /\ ProcIdle

SplitCall ==
    /\ ~split.done
    /\ split' = [split EXCEPT !.chunks = _split_plot_into_display_chunks(split.plot),
                              !.done = TRUE]
    /\ UNCHANGED <<b_args, b_result, codec, reading, engine, fvars, pvars>>

MergeCall ==
    /\ split.done /\ ~split.merged_done
    /\ split' = [split EXCEPT !.merged = _merge_small_trailing_chunks(split.chunks),
                              !.merged_done = TRUE]
    /\ UNCHANGED <<b_args, b_result, codec, reading, engine, fvars, pvars>>

NextSplit == SplitCall \/ MergeCall

SpecSplit == InitSplit /\ [][NextSplit]_vars

\* the whitespace-delimited words of the chunks, chunk after chunk
ChunkWords(chunks) == Flatten([i \in 1..Len(chunks) |-> Split(chunks[i])])

\* C16: the words of the chunks returned by _split_plot_into_display_chunks,
\* taken chunk after chunk, are the words of the plot in their order, none
\* dropped and none repeated; so the two sets of words are equal.
C16_SplitKeepsWords ==
    split.done =>
        /\ ChunkWords(split.chunks) = Split(split.plot)
        /\ {ChunkWords(split.chunks)[i] : i \in 1..Len(ChunkWords(split.chunks))}
               = {Split(split.plot)[i] : i \in 1..Len(Split(split.plot))}

\* a plot with a sentence longer than a chunk was split into three chunks
\* or more, one of them cut inside that sentence
C16_Witness ==
    /\ split.done
    /\ Len(split.chunks) >= 3
    /\ \E i \in 1..Len(SplitSentences(Strip(split.plot))) :
          /\ TextLen(SplitSentences(Strip(split.plot))[i]) > MaxCharsPerChunk
          /\ Len(Split(SplitSentences(Strip(split.plot))[i])) >= 3
    /\ \E i \in 1..Len(split.chunks) : ~EndsSentence(Last(split.chunks[i]))

\* ------------------------------------------------------------------------
\* Properties of build_intro_blocks
\* ------------------------------------------------------------------------
\* C17: build_intro_blocks returns the empty list whenever available_ms =
\* first_subtitle_start_ms - safety_gap_ms is less than MIN_MS + safety_gap_ms,
\* for every metadata record and plot.
C17_NoFitReturnsEmpty ==
    (b_result.done /\ b_args.first - b_args.gap < MIN_MS + b_args.gap) =>
        (~b_result.raised /\ b_result.blocks = <<>>)

\* the call under check is that of the scenario: a plot of 20 words, first
\* subtitle at 10000 ms, safety gap 500 ms
Scenario20 ==
    /\ b_result.done
    /\ count_words(b_args.plot) = 20
    /\ b_args.first = 10000 /\ b_args.gap = 500

Duration(b) == b.end_time - b.start_time

\* C18 as stated: for a plot of 20 words with first_subtitle_start_ms = 10000
\* and gap 500 the full-fit strategy is selected: the header and one plot
\* chunk, each shown for its reading duration, the last ending before 10000.
C18_FullFitSelected ==
    Scenario20 =>
        /\ ~b_result.raised
        /\ Len(b_result.blocks) = 2
        /\ Duration(b_result.blocks[1]) = calculate_reading_duration_ms(b_result.blocks[1].text)
        /\ Duration(b_result.blocks[2]) = calculate_reading_duration_ms(b_args.plot)
        /\ Last(b_result.blocks).end_time < b_args.first

\* C18 amended: for a plot of 20 words that fits one display chunk, with
\* first_subtitle_start_ms = 10000 and gap 500, the compressed-fit strategy is
\* selected: the header is shown for half of the 9500 ms available, the one
\* plot chunk for the other half, both for less than their reading
\* durations, and the last block ends at 9500, before 10000.
C18_CompressedFitSelected ==
    (Scenario20 /\ TextLen(Strip(b_args.plot)) <= MaxCharsPerChunk) =>
        /\ ~b_result.raised
        /\ Len(b_result.blocks) = 2
        /\ b_result.blocks[1].start_time = 0
        /\ b_result.blocks[1].end_time = (b_args.first - b_args.gap) \div 2
        /\ Duration(b_result.blocks[1]) < calculate_reading_duration_ms(b_result.blocks[1].text)
        /\ b_result.blocks[2].start_time = b_result.blocks[1].end_time
        /\ b_result.blocks[2].end_time = b_args.first - b_args.gap
        /\ Duration(b_result.blocks[2]) < calculate_reading_duration_ms(b_args.plot)
        /\ Last(b_result.blocks).end_time < b_args.first

\* the scenario was run with a 20-word plot of one chunk and with the extra
\* header lines on
C18_Witness ==
    /\ Scenario20 /\ TextLen(Strip(b_args.plot)) <= MaxCharsPerChunk
    /\ b_args.fo.show_director /\ b_args.movie.director # <<>>
    /\ Len(b_result.blocks) = 2

\* every value of the six flags
AllFormatOptions ==
    [title_bold : BOOLEAN, plot_italic : BOOLEAN, show_director : BOOLEAN,
     show_actors : BOOLEAN, show_released : BOOLEAN, show_genre : BOOLEAN]

\* what a call gave, without the text: the (start_ms, end_ms) pairs, or the
\* AssertionError
Timing(r) ==
    [raised |-> r.raised,
     spans |-> IF r.raised THEN <<>>
               ELSE [i \in 1..Len(r.blocks) |->
                        <<r.blocks[i].start_time, r.blocks[i].end_time>>]]

\* the timing of the call under check, had its options been fo
TimingWith(fo) ==
    Timing(build_intro_blocks(b_args.movie, b_args.plot, b_args.first, b_args.gap, fo))

PlainTitle(movie) ==
    /\ SUBLOGUE_TOKEN_PATTERN_sub(movie.title) # <<>>
    /\ Strip(SUBLOGUE_TOKEN_PATTERN_sub(movie.title)) = SUBLOGUE_TOKEN_PATTERN_sub(movie.title)

\* the option values that differ from fo in the two markup flags at most
SameLines(fo) ==
    {g \in AllFormatOptions :
        /\ g.show_director = fo.show_director /\ g.show_actors = fo.show_actors
        /\ g.show_released = fo.show_released /\ g.show_genre = fo.show_genre}

Strategy(movie, plot, first_subtitle_start_ms, min_safe_gap_ms, fo) ==
    LET available_time_ms == first_subtitle_start_ms - min_safe_gap_ms
        Chosen(header_duration_ms, chunk_count, total_plot_duration_ms) ==
            IF first_subtitle_start_ms < MIN_MS + min_safe_gap_ms THEN "none"
            ELSE IF available_time_ms >= header_duration_ms + total_plot_duration_ms
            THEN "full"
            ELSE IF available_time_ms >= header_duration_ms + MIN_MS * chunk_count
            THEN "compressed"
            ELSE IF available_time_ms >= header_duration_ms + MIN_MS THEN "partial"
            ELSE IF available_time_ms >= MIN_MS THEN "header"
            ELSE "none"
        Chunked(header_text, plot_chunks) ==
            Chosen(calculate_reading_duration_ms(header_text), Len(plot_chunks),
                   SumSeq([k \in 1..Len(plot_chunks) |->
                               calculate_reading_duration_ms(plot_chunks[k])]))
    IN Chunked(HeaderText(movie, fo), _split_plot_into_display_chunks(plot))

CompressedCall ==
    /\ b_result.done
    /\ Strategy(b_args.movie, b_args.plot, b_args.first, b_args.gap, b_args.fo) = "compressed"

\* C20: in the compressed-fit strategy every plot chunk block that is emitted
\* is displayed for at least MIN_MS: end_time - start_time >= 1200.
C20_CompressedChunksAtLeastMin ==
    CompressedCall =>
        \A i \in 2..Len(b_result.blocks) : Duration(b_result.blocks[i]) >= MIN_MS

PartialCall ==
    /\ b_result.done
    /\ Strategy(b_args.movie, b_args.plot, b_args.first, b_args.gap, b_args.fo) = "partial"

\* the atoms format_plot_chunk adds to a chunk: the sentinel, the "Plot:"
\* prefix and the italic tags
IsMarkup(a) == a \in {"{", "SUB", "LOGUE", "}", "Plot:", "<i>", "</i>"}

\* the whitespace-delimited words of the plot chunk blocks (all blocks after
\* the header), block after block, without the markup
ShownPlotWords(blocks) ==
    Flatten([i \in 1..(Len(blocks) - 1) |->
                Split(SelectSeq(blocks[i + 1].text, LAMBDA a : ~IsMarkup(a)))])

\* C21: in the partial-fit strategy every word of the plot appears, in order,
\* in the text of the generated plot blocks; none is cut off or replaced by an
\* ellipsis.
C21_PartialFitKeepsPlot ==
    (PartialCall /\ ~b_result.raised) =>
        ShownPlotWords(b_result.blocks) = Split(b_args.plot)

\* ------------------------------------------------------------------------
\* calculate_reading_duration_ms on its own
\* ------------------------------------------------------------------------
MaxReadingAtoms == 3

MaxReadingWords == 18

ReadingAtoms == {"w4", "SP", "NL", "{", "SUB", "LOGUE", "}", ":"}

\* a sentinel token that carries a payload
TaggedSentinel == <<"{", "SUB", "LOGUE", ":", "w4", "SP", "w4", "}">>

\* n words, alone
WordTexts == {Words(n, "w4") : n \in 0..MaxReadingWords}

\* every text of up to MaxReadingAtoms atoms, and up to MaxReadingWords words
\* with sentinel tokens and whitespace around them
ReadingTexts ==
    UNION {[1..n -> ReadingAtoms] : n \in 0..MaxReadingAtoms}
    \cup {pre \o t \o suf :
            pre \in {<<>>, SUBLOGUE_SENTINEL \o <<"NL">>, TaggedSentinel, <<"NL", "SP">>},
            t \in WordTexts,
            suf \in {<<>>, <<"SP">>, <<"SP">> \o SUBLOGUE_SENTINEL, SUBLOGUE_SENTINEL}}

InitReading ==
    /\ reading \in {[NoReading EXCEPT !.text = t] : t \in ReadingTexts}
    /\ codec = NoCodec /\ split = NoSplit /\ engine = NoEngine
    /\ b_args = NoArgs /\ b_result = NoResult
    /\ ProcIdle

ReadingDurationCall ==
    /\ ~reading.done
    /\ reading' = [reading EXCEPT !.ms = calculate_reading_duration_ms(reading.text),
                                  !.done = TRUE]
    /\ UNCHANGED <<b_args, b_result, codec, split, engine, fvars, pvars>>

NextReading == ReadingDurationCall

SpecReading == InitReading /\ [][NextReading]_vars

\* the number of whitespace-delimited tokens of a text: the positions where a
\* run of non-whitespace atoms begins
TokenCount(t) ==
    Cardinality({i \in 1..Len(t) : ~IsWs(t[i]) /\ (i = 1 \/ IsWs(t[i - 1]))})

\* w: the tokens left once the sentinel tokens are removed
WordsLeft(t) == TokenCount(SUBLOGUE_TOKEN_PATTERN_sub(t))

Clamp(x, lo, hi) == Max2(lo, Min2(x, hi))

\* C22: calculate_reading_duration_ms returns clamp(375 * w, 1200, 6000) for
\* the w words left after removing sentinel tokens; the result lies in
\* [1200, 6000] and a text of no more words never gets a longer duration.
C22_ReadingDuration ==
    reading.done =>
        /\ reading.ms = Clamp(375 * WordsLeft(reading.text), 1200, 6000)
        /\ reading.ms >= 1200 /\ reading.ms <= 6000
        /\ \A u \in WordTexts :
               WordsLeft(u) <= WordsLeft(reading.text)
                   => calculate_reading_duration_ms(u) <= reading.ms

C22_Witness ==
    /\ reading.done
    /\ SUBLOGUE_TOKEN_PATTERN_search(reading.text)
    /\ WordsLeft(reading.text) = 17
    /\ reading.ms = 6000
    /\ calculate_reading_duration_ms(Words(15, "w4")) = 5625

\* C23: every chunk returned by _split_plot_into_display_chunks and every
\* chunk left by _merge_small_trailing_chunks has at most
\* TV_LINE_WIDTH * TV_MAX_LINES = 110 characters, whatever the plot.
C23_ChunksFitDisplay ==
    /\ split.done =>
           \A i \in 1..Len(split.chunks) : TextLen(split.chunks[i]) <= 110
    /\ split.merged_done =>
           \A i \in 1..Len(split.merged) : TextLen(split.merged[i]) <= 110

\* the failures process_file reports before it reaches file_lock
PreLockErrors ==
    {"File not found", "Subtitle file too large", "No metadata found", "Empty plot"}

EndedBeforeLock(p) ==
    pc[p] = "done" /\ result[p].status = "Error" /\ result[p].error \in PreLockErrors

\* C24: the existence and size checks, the metadata fetch and the empty-plot
\* check come before the lock: a call that ends in one of their failures has
\* created no LockMarker and run no step of the critical section, and a caller
\* about to fetch metadata does not hold the marker.
C24_ChecksBeforeLock ==
    \A p \in Callers :
        /\ EndedBeforeLock(p) => ~hist[p].acquired /\ ~hist[p].cs_step
        /\ pc[p] = "fetch" => ~hist[p].acquired /\ ~(lock.exists /\ lock.owner = p)

C24_Witness ==
    /\ EndedBeforeLock(SeqCaller)
    /\ result[SeqCaller].error = "Empty plot"
    /\ target.exists /\ ~lock.exists
    /\ ~hist[SeqCaller].acquired

\* ------------------------------------------------------------------------
\* Fair scheduling of the callers
\* ------------------------------------------------------------------------
\* a step of caller p in the while loop of file_lock
WaitStep(p) ==
    LockCreate(p) \/ LockStat(p) \/ LockUnlinkStale(p) \/ LockCheckTimeout(p)

\* a caller in the loop takes its next step in the end (a process that is
\* not killed runs on; time.sleep(0.1) returns), and time passes; nothing is
\* assumed of the steps of the holder of the lock
FairSpec ==
    /\ Spec
    /\ \A p \in Callers : WF_vars(WaitStep(p))
    /\ WF_vars(Tick)

\* p is inside the while loop of file_lock
Waiting(p) == pc[p] \in {"lock_create", "lock_stat", "lock_unlink", "lock_timeout"}

\* the wait began early enough for the timeout to elapse before the clock of
\* the model stops
TimeoutInReach(p) == wait_start[p] + LOCK_TIMEOUT_S < MaxTicks * TickSeconds

\* C25: under fair scheduling a caller waiting in file_lock ends its wait: it
\* creates the LockMarker or raises FileLockError (or is killed); it does not
\* poll forever, also when it finds markers stale and removes them.
C25_WaitTerminates ==
    \A p \in Callers :
        (Waiting(p) /\ TimeoutInReach(p))
            ~> (hist[p].acquired \/ hist[p].timed_out \/ pc[p] = "killed")

\* a caller that removed a stale marker and then created its own, later than
\* its timeout
C25_Witness ==
    \E p \in Callers :
        /\ hist[p].reclaimed /\ hist[p].acquired
        /\ lock.exists /\ lock.owner = p
        /\ lock.mtime - wait_start[p] > LOCK_TIMEOUT_S

\* caller p takes a step that removes a marker another caller created
RemovesForeignMarker(p) ==
    /\ pc'[p] # pc[p]
    /\ lock.exists /\ lock.owner # p
    /\ ~lock'.exists

\* C26: a caller removes a LockMarker it did not create only when the marker
\* is older than the staleness threshold of 60 s; so a caller whose wait timed
\* out leaves the holder's marker in place, and a release never removes the
\* marker of another caller.
C26_OnlyStaleForeignMarkersRemoved ==
    [][\A p \in Callers :
          RemovesForeignMarker(p) => Now - lock.mtime > STALE_LOCK_S]_vars

\* the blocks a finished call returned (none when it raised)
Returned_blocks == IF b_result.done /\ ~b_result.raised THEN b_result.blocks ELSE <<>>

\* C27: every block returned by build_intro_blocks ends inside the safe
\* window, at or before first_subtitle_start_ms - min_safe_gap_ms, whatever
\* the strategy.
C27_BlocksInsideSafeWindow ==
    \A i \in 1..Len(Returned_blocks) :
        Returned_blocks[i].end_time <= b_args.first - b_args.gap

\* C28: every block returned by build_intro_blocks is shown for a positive
\* time, the first starts at 0 and each later one starts where the one before
\* it ends.
C28_PositiveChainedBlocks ==
    \A i \in 1..Len(Returned_blocks) :
        /\ Returned_blocks[i].start_time < Returned_blocks[i].end_time
        /\ Returned_blocks[i].start_time =
               (IF i = 1 THEN 0 ELSE Returned_blocks[i - 1].end_time)

\* C29: build_intro_blocks returns a non-empty list exactly when
\* first_subtitle_start_ms >= MIN_MS + min_safe_gap_ms.
C29_NonEmptyIffGapSuffices ==
    b_result.done =>
        ((~b_result.raised /\ b_result.blocks # <<>>)
            <=> b_args.first >= MIN_MS + b_args.gap)

\* ------------------------------------------------------------------------
\* AutomationEngine: start, shutdown and reload_rules on one engine, called
\* from several threads
\* ------------------------------------------------------------------------
\* a rule of the store: absent, disabled, enabled with a crontab that
\* CronTrigger.from_crontab accepts, or enabled with one it rejects
RuleStates == {"absent", "disabled", "enabled", "badcron"}

InitEngine ==
    /\ engine \in {[NoEngine EXCEPT !.rules = r] : r \in [RuleIds -> RuleStates]}
    /\ codec = NoCodec /\ split = NoSplit /\ reading = NoReading
    /\ b_args = NoArgs /\ b_result = NoResult
    /\ ProcIdle

EngineIdleRest == UNCHANGED <<b_args, b_result, codec, split, reading, fvars, pvars>>

\* a thread calls start and comes to its "with self._lock"
StartCall(t) ==
    /\ engine.pc[t] = "idle"
    /\ engine' = [engine EXCEPT !.pc[t] = "start_wait", !.frame[t] = "none"]
    /\ EngineIdleRest

\* "with self._lock" of start: threading.Lock is not reentrant, the thread
\* waits while the lock is held, by any thread, itself included
StartAcquire(t) ==
    /\ engine.pc[t] = "start_wait"
    /\ engine.lock = "free"
    /\ engine' = [engine EXCEPT !.lock = t, !.pc[t] = "start_held"]
    /\ EngineIdleRest

\* start, inside the lock: return when started already; else start the
\* scheduler, set the flag and call reload_rules with the lock still held
StartBody(t) ==
    /\ engine.pc[t] = "start_held"
    /\ engine' = IF engine.started
                 THEN [engine EXCEPT !.lock = "free", !.pc[t] = "idle"]
                 ELSE [engine EXCEPT !.running = TRUE, !.started = TRUE,
                                     !.pc[t] = "reload_wait", !.frame[t] = "start"]
    /\ EngineIdleRest

ShutdownCall(t) ==
    /\ engine.pc[t] = "idle"
    /\ engine' = [engine EXCEPT !.pc[t] = "shutdown_wait", !.frame[t] = "none"]
    /\ EngineIdleRest

\* "with self._lock" of shutdown
ShutdownAcquire(t) ==
    /\ engine.pc[t] = "shutdown_wait"
    /\ engine.lock = "free"
    /\ engine' = [engine EXCEPT !.lock = t, !.pc[t] = "shutdown_held"]
    /\ EngineIdleRest

\* shutdown, inside the lock
ShutdownBody(t) ==
    /\ engine.pc[t] = "shutdown_held"
    /\ engine' = IF ~engine.started
                 THEN [engine EXCEPT !.lock = "free", !.pc[t] = "idle"]
                 ELSE [engine EXCEPT !.running = FALSE, !.started = FALSE,
                                     !.lock = "free", !.pc[t] = "idle"]
    /\ EngineIdleRest

\* a thread calls reload_rules from outside the engine
ReloadCall(t) ==
    /\ engine.pc[t] = "idle"
    /\ engine' = [engine EXCEPT !.pc[t] = "reload_wait", !.frame[t] = "none"]
    /\ EngineIdleRest

\* "with self._lock" of reload_rules, whoever called it
ReloadAcquire(t) ==
    /\ engine.pc[t] = "reload_wait"
    /\ engine.lock = "free"
    /\ engine' = [engine EXCEPT !.lock = t, !.pc[t] = "reload_held"]
    /\ EngineIdleRest

\* the rules _schedule_rule adds a job for: enabled, with a valid crontab
Schedulable(rules) == {r \in RuleIds : rules[r] = "enabled"}

\* reload_rules, inside the lock: remove all jobs, schedule the enabled
\* rules, release the lock and return; a caller that is start then logs and
\* returns too
ReloadBody(t) ==
    /\ engine.pc[t] = "reload_held"
    /\ engine' = [engine EXCEPT !.jobs = Schedulable(engine.rules), !.lock = "free",
                                !.pc[t] = "idle", !.frame[t] = "none"]
    /\ EngineIdleRest

\* the steps a thread takes by itself once it is inside a method
EngineStep(t) ==
    \/ StartAcquire(t) \/ StartBody(t)
    \/ ShutdownAcquire(t) \/ ShutdownBody(t)
    \/ ReloadAcquire(t) \/ ReloadBody(t)

NextEngine ==
    \E t \in EngineThreads :
        \/ StartCall(t) \/ StartAcquire(t) \/ StartBody(t)
        \/ ShutdownCall(t) \/ ShutdownAcquire(t) \/ ShutdownBody(t)
        \/ ReloadCall(t) \/ ReloadAcquire(t) \/ ReloadBody(t)

SpecEngine == InitEngine /\ [][NextEngine]_vars

\* every thread inside a method is scheduled, and a thread that finds the
\* lock free again and again gets it
FairEngine == SpecEngine /\ \A t \in EngineThreads : SF_vars(EngineStep(t))

\* C30: a start() that finds the engine not started terminates: the thread
\* comes back out of start, and the engine's lock is no longer held by it.
C30_StartTerminates ==
    \A t \in EngineThreads :
        (engine.pc[t] = "start_held" /\ ~engine.started)
            ~> (engine.pc[t] = "idle" /\ engine.lock # t)

====
